---- MODULE Spec2Model ----
(***************************************************************************)
(* A model of streamlit-data-browser: the permission gate and the table    *)
(* replace engine of the data browser (src/browser, src/core and the       *)
(* script src/streamlit_data_browser.py), and the password-reset tokens    *)
(* of the auth module (src/auth and the script src/streamlit_login.py).    *)
(*                                                                         *)
(* The specifications share the variables:                                 *)
(*   Spec            the data browser: one user session against the tables;*)
(*   SpecAuth        the reset-token operations, one call after another;   *)
(*   SpecAuthConc    two request_password_reset calls, each in its own     *)
(*                   PostgreSQL transaction, interleaved statement by      *)
(*                   statement (READ COMMITTED, the engine's default);     *)
(*   SpecLogin       login, logout, the session's permission snapshot and  *)
(*                   changes of the permission tables;                     *)
(*   SpecFilter      the two validate_where_clause functions on one filter;*)
(*   SpecTableId     validate_table_id on one table id;                    *)
(*   SpecView        the browser page's runs (filter, paging, COMMIT) and  *)
(*                   direct calls of BrowserService.load_table_data;       *)
(*   SpecLegacyView  the script's runs with its st.cache_data functions;   *)
(*   SpecSchemas     the schema lists offered to a user and the checks     *)
(*                   that follow, for every permission snapshot;           *)
(*   SpecResetForm   the two reset-request forms: the token, then the      *)
(*                   email;                                                *)
(*   SpecValidateFilter                                                    *)
(*                   BrowserService.validate_filter on one filter text, and*)
(*                   again on the clause it returned.                      *)
(* The variables a specification does not use keep their initial value.    *)
(***************************************************************************)
EXTENDS Integers, Sequences, FiniteSets, TLC

\* ------------------------------------------------------------------ bounds
\* The rows a table or a DataFrame can hold are 1..MaxRows.
MaxRows == 2

\* ------------------------------------------------------------- the browser
VARIABLES
    permissions,   \* st.session_state.permissions: schema name -> level
    db,            \* the committed tables: <<schema, table>> -> NoTable or a table
    trace,         \* what the last operation did, in order: checks and SQL statements
    op             \* the last operation: its name, inputs, outcome and the tables before

\* Names are sequences of characters, so that 'schema.table' can be split.
SchemaS == <<"s">>
SchemaH == <<"h">>
SchemaNames == {SchemaS, SchemaH}
TableT == <<"t">>

\* The values of group_schema_permissions.permission a snapshot can hold.
GrantLevels == {"read", "write"}

\* The tables of the model: s.t exists at the start, h.t does not (yet).
DbKeys == {<<SchemaS, TableT>>, <<SchemaH, TableT>>}
Rows == 1..MaxRows
NoTable == [exists |-> FALSE, rows |-> {}]
Table(rows) == [exists |-> TRUE, rows |-> rows]

\* The table ids a caller passes: well formed ones, and malformed ones.
TableIdInputs ==
    { <<"s", ".", "t">>, <<"h", ".", "t">>, <<"s", "t">>, <<".", "t">> }

\* A pandas DataFrame argument: None, or a frame with a set of rows (empty when
\* the set is empty).
NoneDf == [is_none |-> TRUE, rows |-> {}]
Frame(rows) == [is_none |-> FALSE, rows |-> rows]
DataFrames == {NoneDf} \cup {Frame(r) : r \in SUBSET Rows}
df_empty(df) == df.rows = {}

\* Where a database call of an operation fails, if it does.
ReplaceFailures == {"none", "create", "insert"}
LoadFailures == {"none", "count", "select"}

\* ---- trace events
CheckEvent(level, schema, ok) ==
    [ev |-> "check", what |-> level, schema |-> schema, ok |-> ok]
SqlEvent(kind, schema) ==
    [ev |-> "sql", what |-> kind, schema |-> schema, ok |-> TRUE]

\* ---- core/session.py
\* permissions.get(schema_name): None when the snapshot has no entry.
user_level(perms, schema_name) ==
    IF schema_name \in DOMAIN perms THEN perms[schema_name] ELSE "None"

\* A faulty has_permission, to try the properties against: it lets any granted
\* level pass for any required level.
has_permission_lax(perms, schema_name, required_level) ==
    user_level(perms, schema_name) \in {"read", "write"}

\* SessionManager.has_permission: read is met by read or write, write by write
\* only, any other required level by nothing.
has_permission(perms, schema_name, required_level) ==
    IF required_level = "read"
    THEN user_level(perms, schema_name) \in {"read", "write"}
    ELSE IF required_level = "write"
    THEN user_level(perms, schema_name) = "write"
    ELSE FALSE

\* ---- browser/permission_service.py
\* The outcome of a check: "ok" (True is returned) or PermissionDeniedError.
check_schema_read_access(perms, schema_name) ==
    IF ~has_permission(perms, schema_name, "read") THEN "PermissionDeniedError" ELSE "ok"

check_schema_write_access(perms, schema_name) ==
    IF ~has_permission(perms, schema_name, "write") THEN "PermissionDeniedError" ELSE "ok"

has_write_access(perms, schema_name) == has_permission(perms, schema_name, "write")

\* ---- browser/validation/validator.py
\* The index of the first '.', 0 when there is none.
FirstDot(s) ==
    IF \E i \in 1..Len(s) : s[i] = "."
    THEN CHOOSE i \in 1..Len(s) : s[i] = "." /\ \A j \in 1..(i - 1) : s[j] # "."
    ELSE 0

\* table_id.split('.', 1), the ValueError on unpacking, and the empty-part check.
validate_table_id(table_id) ==
    LET d == FirstDot(table_id) IN
    IF d = 0
    THEN [ok |-> FALSE, schema_name |-> <<>>, table_name |-> <<>>]
    ELSE LET schema_name == SubSeq(table_id, 1, d - 1)
             table_name == SubSeq(table_id, d + 1, Len(table_id))
         IN IF schema_name = <<>> \/ table_name = <<>>
            THEN [ok |-> FALSE, schema_name |-> <<>>, table_name |-> <<>>]
            ELSE [ok |-> TRUE, schema_name |-> schema_name, table_name |-> table_name]

\* ---- core/database.py
\* A faulty get_db_transaction, to try the properties against: every statement
\* is committed as it runs.
get_db_transaction_autocommit(base, work, raised) == work

\* engine.begin(): the block's work is committed when the block is left normally
\* and rolled back when it is left by an exception (PostgreSQL rolls DDL back too).
get_db_transaction(base, work, raised) == IF raised THEN base ELSE work

\* ---- browser/repositories.py replace_table, streamlit_data_browser.py replace_table
\* The statements the transaction block runs, in order, up to the failing one.
ReplaceStatements(schema_name, df, fail) ==
    LET drop == <<SqlEvent("drop", schema_name)>>
        create == <<SqlEvent("create", schema_name)>>
        insert == <<SqlEvent("insert", schema_name)>>
    IN CASE df.is_none -> drop              \* get_schema(None) raises before CREATE
         [] fail = "create" -> drop \o create
         [] OTHER -> drop \o create \o insert

\* The connection's view of the tables when the block is left.
ReplaceWork(dbv, key, df, fail) ==
    CASE df.is_none \/ fail = "create" -> [dbv EXCEPT ![key] = NoTable]
      [] fail = "insert" -> [dbv EXCEPT ![key] = Table({})]
      [] OTHER -> [dbv EXCEPT ![key] = Table(df.rows)]

ReplaceRaised(df, fail) == df.is_none \/ fail # "none"

\* BrowserRepository.replace_table: DROP, CREATE, INSERT in one transaction;
\* any exception becomes DatabaseError.
replace_table(dbv, schema_name, table_name, df, fail) ==
    LET key == <<schema_name, table_name>>
        raised == ReplaceRaised(df, fail)
    IN [db |-> get_db_transaction(dbv, ReplaceWork(dbv, key, df, fail), raised),
        raised |-> raised,
        trace |-> ReplaceStatements(schema_name, df, fail)]

\* ================================================================== auth
\* ------------------------------------------------------------------ bounds
\* The clock runs over the hours 0..MaxTime.
MaxTime == 2
\* password_resets holds at most MaxTokens rows.
MaxTokens == 2
MaxConcTokens == 3

\* config/constants.py
TOKEN_EXPIRY_HOURS == 1
PASSWORD_MIN_LENGTH == 8
PASSWORD_MAX_LENGTH == 128

VARIABLES
    users,            \* auth.users: id -> [email, password_hash, is_active]
    password_resets,  \* auth.password_resets, committed rows in id order
    now,              \* datetime.now(), in hours
    authOp,           \* the last auth operation: name, inputs, result, state before
    pc,               \* SpecAuthConc: where each request_password_reset call is
    txn               \* SpecAuthConc: each call's open transaction

UserIds == {1, 2}

\* A password is what the validators look at: its length and character classes.
Password(length, upper, lower, digit, special) ==
    [length |-> length, upper |-> upper, lower |-> lower, digit |-> digit,
     special |-> special]
StrongPassword == Password(12, TRUE, TRUE, TRUE, TRUE)
ShortPassword == Password(7, TRUE, TRUE, TRUE, TRUE)
OldPassword == Password(10, TRUE, TRUE, TRUE, TRUE)
NewPasswords == {StrongPassword, ShortPassword}

\* Email inputs are sequences of characters; the two accounts are 'a' and 'b'.
EmailA == <<"a">>
EmailB == <<"b">>
EmailInputs == {EmailA, <<" ", "A">>, EmailB, <<"c">>}

\* The token strings a caller can present: the row ids stand for the random
\* strings of secrets.token_urlsafe, which do not repeat.
TokenStrings == 1..MaxTokens

\* ---- auth/service.py pwd_context
\* pwd_context.hash(password): a digest only the same password verifies against,
\* under a salt drawn afresh on every call.
hash_password(password, salt) == [digest_of |-> password, salt |-> salt]
\* pwd_context.verify(plain_password, hashed_password)
verify_password(plain_password, hashed_password) == hashed_password.digest_of = plain_password
\* The salt of the next hash stored for a user differs from the one stored now.
FreshSalt(us, user_id) == us[user_id].password_hash.salt + 1

\* ---- auth/validation/email_validator.py
Lower(c) == IF c = "A" THEN "a" ELSE IF c = "B" THEN "b" ELSE IF c = "C" THEN "c" ELSE c
RECURSIVE LStrip(_)
LStrip(s) == IF s # <<>> /\ Head(s) = " " THEN LStrip(Tail(s)) ELSE s
RECURSIVE RStrip(_)
RStrip(s) ==
    IF s # <<>> /\ s[Len(s)] = " " THEN RStrip(SubSeq(s, 1, Len(s) - 1)) ELSE s
\* EmailValidator.normalize: email.strip().lower()
normalize(email) ==
    LET stripped == RStrip(LStrip(email)) IN [i \in 1..Len(stripped) |-> Lower(stripped[i])]

\* ---- auth/validation/password_validator.py
\* PasswordValidator.validate: "" when valid, else the first rule broken.
PasswordValidator_validate(password) ==
    IF password.length = 0 THEN "empty"
    ELSE IF password.length < PASSWORD_MIN_LENGTH THEN "too short"
    ELSE IF password.length > PASSWORD_MAX_LENGTH THEN "too long"
    ELSE IF ~password.upper THEN "no uppercase"
    ELSE IF ~password.lower THEN "no lowercase"
    ELSE IF ~password.digit THEN "no digit"
    ELSE IF ~password.special THEN "no special"
    ELSE ""

\* ---- utils/validators.py
validate_password_strength(password) ==
    IF password.length = 0 THEN "empty"
    ELSE IF password.length < 8 THEN "too short"
    ELSE IF password.length > 128 THEN "too long"
    ELSE IF ~password.upper THEN "no uppercase"
    ELSE IF ~password.lower THEN "no lowercase"
    ELSE IF ~password.digit THEN "no digit"
    ELSE IF ~password.special THEN "no special"
    ELSE ""

\* ---- auth/repositories.py
\* UserRepository.find_by_email: the id of the user with that email, 0 for None.
find_by_email(us, email) ==
    IF \E u \in UserIds : us[u].email = email
    THEN CHOOSE u \in UserIds : us[u].email = email
    ELSE 0

\* UserRepository.update_password
update_password(us, user_id, password_hash) ==
    [us EXCEPT ![user_id].password_hash = password_hash]

\* The row with that token string, 0 when there is none.
RowOf(resets, token) ==
    IF \E i \in 1..Len(resets) : resets[i].token = token
    THEN CHOOSE i \in 1..Len(resets) : resets[i].token = token
    ELSE 0

\* A faulty UPDATE, to try the properties against: it marks nothing.
invalidate_tokens_none(resets, user_id) == resets

\* The UPDATE of create_reset_token: every unused row of the user becomes used.
invalidate_tokens(resets, user_id) ==
    [i \in 1..Len(resets) |->
        IF resets[i].user_id = user_id /\ ~resets[i].used
        THEN [resets[i] EXCEPT !.used = TRUE]
        ELSE resets[i]]

\* The INSERT of create_reset_token: a fresh token expiring TOKEN_EXPIRY_HOURS
\* after now, used = FALSE by the column's default.
insert_token(resets, user_id, t) ==
    Append(resets, [user_id |-> user_id, token |-> Len(resets) + 1,
                    expires_at |-> t + TOKEN_EXPIRY_HOURS, used |-> FALSE])

\* A faulty verify_token, to try the properties against: it does not look at
\* the used flag.
verify_token_ignoring_used(us, resets, t, token, lookup_error) ==
    LET row == RowOf(resets, token) IN
    IF lookup_error THEN 0
    ELSE IF row = 0 THEN 0
    ELSE IF t > resets[row].expires_at THEN 0
    ELSE IF ~us[resets[row].user_id].is_active THEN 0
    ELSE row

\* A faulty verify_token, to try the properties against: it refuses a token at
\* the hour it expires.
verify_token_strict_expiry(us, resets, t, token, lookup_error) ==
    LET row == RowOf(resets, token) IN
    IF lookup_error THEN 0
    ELSE IF row = 0 THEN 0
    ELSE IF resets[row].used THEN 0
    ELSE IF t >= resets[row].expires_at THEN 0
    ELSE IF ~us[resets[row].user_id].is_active THEN 0
    ELSE row

\* TokenRepository.verify_token: the row id of the token, 0 for None. A lookup
\* error is caught and None returned.
verify_token(us, resets, t, token, lookup_error) ==
    LET row == RowOf(resets, token) IN
    IF lookup_error THEN 0
    ELSE IF row = 0 THEN 0
    ELSE IF resets[row].used THEN 0
    ELSE IF t > resets[row].expires_at THEN 0
    ELSE IF ~us[resets[row].user_id].is_active THEN 0
    ELSE row

\* TokenRepository.mark_token_used
mark_token_used(resets, token) ==
    [i \in 1..Len(resets) |->
        IF resets[i].token = token THEN [resets[i] EXCEPT !.used = TRUE] ELSE resets[i]]

\* ---- streamlit_login.py
\* verify_reset_token: the user id of a valid token, 0 for (None, None).
verify_reset_token(us, resets, t, token) ==
    LET row == RowOf(resets, token) IN
    IF row = 0 THEN 0
    ELSE IF resets[row].used THEN 0
    ELSE IF t > resets[row].expires_at THEN 0
    ELSE IF ~us[resets[row].user_id].is_active THEN 0
    ELSE resets[row].user_id

\* A faulty engine.begin(), to try the properties against: the COMMIT after a
\* failed statement keeps what ran before it.
engine_begin_partial(base, work, raised, statement_failed) ==
    IF raised THEN base ELSE work

\* with get_engine().begin() as conn: around code that catches its own database
\* errors. An exception leaving the block rolls back. A block left normally
\* sends COMMIT; when a statement failed inside it the PostgreSQL transaction is
\* aborted and the COMMIT ends it as a rollback.
engine_begin(base, work, raised, statement_failed) ==
    IF raised \/ statement_failed THEN base ELSE work

\* ---- the auth database and the results of the operations
AuthDb(us, resets) == [users |-> us, resets |-> resets]
TokenResult(success, kind, token) == [success |-> success, kind |-> kind, token |-> token]
AuthOutcome(st, result) == [st |-> st, result |-> result]

RequestFailures == {"none", "invalidate", "insert"}
ResetFailures == {"none", "verify", "update", "mark"}

\* TokenRepository.create_reset_token: the connection's view after the statements
\* that ran (the failing statement raises DatabaseError and changes nothing).
create_reset_token(st, user_id, t, fail) ==
    LET invalidated == invalidate_tokens(st.resets, user_id) IN
    CASE fail = "invalidate" -> st
      [] fail = "insert" -> AuthDb(st.users, invalidated)
      [] OTHER -> AuthDb(st.users, insert_token(invalidated, user_id, t))

\* ---- auth/service.py
\* The names bound in the module when reset_password runs: its imports (lines
\* 1-21) and its own definitions. sqlalchemy's text is not imported.
ServiceModuleNames ==
    {"Tuple", "CryptContext", "LoginResult", "RegistrationResult", "TokenResult",
     "UserRepository", "GroupRepository", "TokenRepository", "EmailValidator",
     "PasswordValidator", "get_db_transaction", "AuthenticationError",
     "ValidationError", "get_auth_logger", "logger", "pwd_context", "AuthService"}

\* A faulty request_password_reset, to try the properties against: it does not
\* look at is_active.
request_password_reset_any_account(st, t, email, fail) ==
    LET user == find_by_email(st.users, normalize(email)) IN
    IF user = 0
    THEN AuthOutcome(st, TokenResult(TRUE, "generic", 0))
    ELSE LET raised == fail # "none"
             work == create_reset_token(st, user, t, fail)
         IN AuthOutcome(get_db_transaction(st, work, raised),
                        IF raised THEN TokenResult(FALSE, "error", 0)
                        ELSE TokenResult(TRUE, "token", Len(work.resets)))

\* AuthService.request_password_reset
request_password_reset(st, t, email, fail) ==
    LET user == find_by_email(st.users, normalize(email)) IN
    IF user = 0
    THEN AuthOutcome(st, TokenResult(TRUE, "generic", 0))
    ELSE IF ~st.users[user].is_active
    THEN AuthOutcome(st, TokenResult(FALSE, "deactivated", 0))
    ELSE LET raised == fail # "none"
             work == create_reset_token(st, user, t, fail)
         IN AuthOutcome(get_db_transaction(st, work, raised),
                        IF raised THEN TokenResult(FALSE, "error", 0)
                        ELSE TokenResult(TRUE, "token", Len(work.resets)))

\* AuthService.reset_password: validate the password, verify the token, look the
\* user up with text(...), update the hash, mark the token used.
reset_password(st, t, token, new_password, fail) ==
    IF PasswordValidator_validate(new_password) # ""
    THEN AuthOutcome(st, TokenResult(FALSE, "validation", 0))
    ELSE LET row == verify_token(st.users, st.resets, t, token, fail = "verify") IN
         IF row = 0
         THEN AuthOutcome(st, TokenResult(FALSE, "invalid token", 0))
         ELSE IF "text" \notin ServiceModuleNames
         THEN \* NameError: the block is left by an exception
              AuthOutcome(get_db_transaction(st, st, TRUE), TokenResult(FALSE, "error", 0))
         ELSE LET user_id == st.resets[row].user_id
                  updated == AuthDb(update_password(st.users, user_id,
                                                    hash_password(new_password,
                                                                  FreshSalt(st.users, user_id))),
                                    st.resets)
                  marked == AuthDb(updated.users, mark_token_used(updated.resets, token))
                  raised == fail \in {"update", "mark"}
                  work == CASE fail = "update" -> st
                            [] fail = "mark" -> updated
                            [] OTHER -> marked
              IN AuthOutcome(get_db_transaction(st, work, raised),
                             IF raised THEN TokenResult(FALSE, "error", 0)
                             ELSE TokenResult(TRUE, "changed", token))

\* ---- streamlit_login.py
\* create_password_reset_token inside the form's get_engine().begin() block: the
\* email is looked up as typed; a database error is caught and reported.
create_password_reset_token(st, t, email, fail) ==
    LET user == find_by_email(st.users, email) IN
    IF user = 0
    THEN AuthOutcome(st, TokenResult(TRUE, "generic", 0))
    ELSE IF ~st.users[user].is_active
    THEN AuthOutcome(st, TokenResult(FALSE, "deactivated", 0))
    ELSE LET failed == fail # "none"
             work == create_reset_token(st, user, t, fail)
         IN AuthOutcome(engine_begin(st, work, FALSE, failed),
                        IF failed THEN TokenResult(FALSE, "error", 0)
                        ELSE TokenResult(TRUE, "token", Len(work.resets)))

\* complete_password_reset inside the form's get_engine().begin() block, after
\* the form's validate_password_strength. A lookup error in verify_reset_token is
\* not caught; an error of the two UPDATEs is caught and reported.
complete_password_reset(st, t, token, new_password, fail) ==
    IF validate_password_strength(new_password) # ""
    THEN AuthOutcome(st, TokenResult(FALSE, "validation", 0))
    ELSE IF fail = "verify"
    THEN AuthOutcome(engine_begin(st, st, TRUE, TRUE), TokenResult(FALSE, "exception", 0))
    ELSE LET user_id == verify_reset_token(st.users, st.resets, t, token) IN
         IF user_id = 0
         THEN AuthOutcome(st, TokenResult(FALSE, "invalid token", 0))
         ELSE LET updated == AuthDb(update_password(st.users, user_id,
                                                    hash_password(new_password,
                                                                  FreshSalt(st.users, user_id))),
                                    st.resets)
                  marked == AuthDb(updated.users, mark_token_used(updated.resets, token))
                  failed == fail \in {"update", "mark"}
                  work == CASE fail = "update" -> st
                            [] fail = "mark" -> updated
                            [] OTHER -> marked
              IN AuthOutcome(engine_begin(st, work, FALSE, failed),
                             IF failed THEN TokenResult(FALSE, "error", 0)
                             ELSE TokenResult(TRUE, "changed", token))

\* What an operation leaves: the tables, its outcome and its trace.
Outcome(dbv, result, tr) == [db |-> dbv, result |-> result, trace |-> tr]

\* ---- browser/service.py
\* BrowserService.get_tables_for_schema: the check, then the catalog query
\* (BrowserRepository.get_tables turns a query error into an empty dict).
get_tables_for_schema(perms, dbv, schema_name) ==
    LET chk == check_schema_read_access(perms, schema_name)
        ce == CheckEvent("read", schema_name, chk = "ok")
    IN IF chk # "ok"
       THEN Outcome(dbv, chk, <<ce>>)
       ELSE Outcome(dbv, "tables", <<ce, SqlEvent("tables", schema_name)>>)

\* BrowserService.load_table_data: validate the id, check read access, count,
\* fetch. get_row_count turns an error into 0; fetch_data raises DatabaseError.
load_table_data(perms, dbv, table_id, fail) ==
    LET v == validate_table_id(table_id) IN
    IF ~v.ok
    THEN Outcome(dbv, "ValidationError", <<>>)
    ELSE LET chk == check_schema_read_access(perms, v.schema_name)
             ce == CheckEvent("read", v.schema_name, chk = "ok")
             missing == ~dbv[<<v.schema_name, v.table_name>>].exists
         IN IF chk # "ok"
            THEN Outcome(dbv, chk, <<ce>>)
            ELSE Outcome(dbv,
                         IF fail = "select" \/ missing THEN "DatabaseError" ELSE "QueryResult",
                         <<ce, SqlEvent("count", v.schema_name),
                           SqlEvent("select", v.schema_name)>>)

\* BrowserService.get_table_info: validate, check read access, then
\* BrowserRepository.get_table_info (COUNT(*), then the column count).
get_table_info(perms, dbv, table_id, fail) ==
    LET v == validate_table_id(table_id) IN
    IF ~v.ok
    THEN Outcome(dbv, "ValidationError", <<>>)
    ELSE LET chk == check_schema_read_access(perms, v.schema_name)
             ce == CheckEvent("read", v.schema_name, chk = "ok")
             missing == ~dbv[<<v.schema_name, v.table_name>>].exists
         IN IF chk # "ok"
            THEN Outcome(dbv, chk, <<ce>>)
            ELSE IF fail = "count" \/ missing
            THEN Outcome(dbv, "DatabaseError", <<ce, SqlEvent("count", v.schema_name)>>)
            ELSE Outcome(dbv, "TableInfo",
                         <<ce, SqlEvent("count", v.schema_name),
                           SqlEvent("columns", v.schema_name)>>)

\* BrowserService.save_table_changes: refuse None and empty frames, validate the
\* id, check write access, replace; a replace error is logged and False returned.
save_table_changes(perms, dbv, table_id, df, fail) ==
    IF df.is_none \/ df_empty(df)
    THEN Outcome(dbv, "False", <<>>)
    ELSE LET v == validate_table_id(table_id) IN
         IF ~v.ok
         THEN Outcome(dbv, "ValidationError", <<>>)
         ELSE LET chk == check_schema_write_access(perms, v.schema_name)
                  ce == CheckEvent("write", v.schema_name, chk = "ok")
                  r == replace_table(dbv, v.schema_name, v.table_name, df, fail)
              IN IF chk # "ok"
                 THEN Outcome(dbv, chk, <<ce>>)
                 ELSE Outcome(r.db, IF r.raised THEN "False" ELSE "True", <<ce>> \o r.trace)

\* ---- streamlit_data_browser.py
\* list_user_schemas: the schemas the user has any grant on.
list_user_schemas(perms) == DOMAIN perms

\* list_tables(schema): the 'schema.table' ids of the catalog's tables.
TableId(key) == key[1] \o <<".">> \o key[2]
list_tables(dbv, schema_name) ==
    {TableId(k) : k \in {x \in DbKeys : x[1] = schema_name /\ dbv[x].exists}}

\* The script's validate_table_id: split on the first '.', then the id must be
\* one of list_tables(schema).
legacy_validate_table_id(dbv, table_id) ==
    LET d == FirstDot(table_id) IN
    IF d = 0
    THEN [ok |-> FALSE, schema_name |-> <<>>, table_name |-> <<>>]
    ELSE LET schema_name == SubSeq(table_id, 1, d - 1)
             table_name == SubSeq(table_id, d + 1, Len(table_id))
         IN IF table_id \notin list_tables(dbv, schema_name)
            THEN [ok |-> FALSE, schema_name |-> <<>>, table_name |-> <<>>]
            ELSE [ok |-> TRUE, schema_name |-> schema_name, table_name |-> table_name]

\* The script's replace_table: validate the id, then the same statements in
\* get_engine().begin(); an error is shown and swallowed, nothing is reported.
legacy_replace_table(dbv, table_id, df, fail) ==
    LET v == legacy_validate_table_id(dbv, table_id) IN
    IF ~v.ok
    THEN [db |-> dbv, raised |-> TRUE, trace |-> <<>>]
    ELSE replace_table(dbv, v.schema_name, v.table_name, df, fail)

\* main_data_browser, the COMMIT button: permissions.get(schema) must be 'write',
\* then replace_table(selected_table_id, edited_df) and the success message.
legacy_commit(perms, dbv, selected_table_id, edited_df, fail) ==
    LET schema_name == SubSeq(selected_table_id, 1, FirstDot(selected_table_id) - 1)
        ok == user_level(perms, schema_name) = "write"
        ce == CheckEvent("write", schema_name, ok)
        r == legacy_replace_table(dbv, selected_table_id, edited_df, fail)
    IN IF ~ok
       THEN Outcome(dbv, "st.error", <<ce>>)
       ELSE Outcome(r.db, "message", <<ce>> \o r.trace)

\* main_data_browser, the CSV import button: replace_table(selected_table_id,
\* imported_df) and the success message.
legacy_import(perms, dbv, selected_table_id, imported_df, fail) ==
    LET r == legacy_replace_table(dbv, selected_table_id, imported_df, fail)
    IN Outcome(r.db, "message", r.trace)

\* ---- the permission tables and the Streamlit session
VARIABLES
    grants,    \* auth.user_groups joined with auth.group_schema_permissions:
               \* user id -> (schema name -> MAX(permission))
    session,   \* st.session_state: logged_in and user_email
    filterOp,  \* the last filter validation: its input and its verdict
    ui,        \* st.session_state of the browser page (browser/ui.py)
    legacy,    \* st.session_state of the script streamlit_data_browser.py
    cache,     \* st.cache_data of the script's three query functions
    display    \* the last page load: who asked, the queries run, what is shown

NoGrants == [s \in {} |-> "read"]
LoggedOut == [logged_in |-> FALSE, user_email |-> <<>>]

NoFilterOp == [name |-> "init", where_clause |-> <<>>, columns |-> <<>>,
               is_valid |-> TRUE, result |-> <<>>]

SessionIdle ==
    /\ grants = [u \in UserIds |-> NoGrants]
    /\ session = LoggedOut

\* A page load's outcome: the QueryResult of browser/models.py, or the error
\* that ended the load, with the queries whose text was composed on the way.
QueryOutcome(result, data, page, page_size, total_rows, total_pages, has_next, has_previous, offset, sql) ==
    [result |-> result, data |-> data, row_count |-> Cardinality(data),
     page |-> page, page_size |-> page_size, total_rows |-> total_rows,
     total_pages |-> total_pages, has_next |-> has_next,
     has_previous |-> has_previous, offset |-> offset, sql |-> sql]
NoQuery == QueryOutcome("None", {}, 0, 0, 0, 0, FALSE, FALSE, 0, <<>>)

\* BrowserUI._init_session_state
NoUi == [where_clause |-> <<>>, filter_applied |-> FALSE, current_page |-> 1,
         reload_data |-> TRUE, current_table_id |-> <<>>,
         cached_query_result |-> NoQuery]

\* main_data_browser's session defaults; current_table_id is set on the first run
NoLegacy == [where_clause |-> <<>>, filter_applied |-> FALSE, current_page |-> 1,
             reload_data |-> TRUE, current_table_id |-> <<>>]

\* st.cache_data starts empty: a set of entries per cached function
NoCache == [get_row_count |-> {}, load_table |-> {}, load_table_filtered |-> {}]

\* What a page load leaves to look at: who asked for which table with which
\* filter, the fragments the shown count and the shown rows were computed with,
\* whether either was cached before the table's last replace, and the outcome.
Display(by, table_id, where_clause, count_where, data_where, count_stale, data_stale, q) ==
    [by |-> by, table_id |-> table_id, where_clause |-> where_clause,
     count_where |-> count_where, data_where |-> data_where,
     count_stale |-> count_stale, data_stale |-> data_stale, q |-> q]
NoDisplay == Display("init", <<>>, <<>>, <<>>, <<>>, FALSE, FALSE, NoQuery)

ViewIdle ==
    /\ ui = NoUi
    /\ legacy = NoLegacy
    /\ cache = NoCache
    /\ display = NoDisplay

SessIdle ==
    /\ SessionIdle
    /\ filterOp = NoFilterOp
    /\ ViewIdle

browserVars == <<permissions, db, trace, op>>
authVars == <<users, password_resets, now, authOp>>
concVars == <<pc, txn>>
viewVars == <<ui, legacy, cache, display>>
sessVars == <<grants, session, filterOp, viewVars>>
vars == <<browserVars, authVars, concVars, sessVars>>

\* ------------------------------------------------------ the browser's steps
Op(name, target, df, fail, before, o) ==
    [name |-> name, target |-> target, df |-> df, fail |-> fail,
     before |-> before, result |-> o.result]

\* The table an id names, NoTable when the id is malformed.
TableOf(dbv, table_id) ==
    LET v == validate_table_id(table_id) IN
    IF v.ok THEN dbv[<<v.schema_name, v.table_name>>] ELSE NoTable

CheckRead ==
    \E s \in SchemaNames :
        LET chk == check_schema_read_access(permissions, s) IN
        /\ trace' = <<CheckEvent("read", s, chk = "ok")>>
        /\ op' = Op("check_schema_read_access", s, NoneDf, "none", db,
                    Outcome(db, chk, <<>>))
        /\ UNCHANGED <<permissions, db>>
        /\ UNCHANGED <<authVars, concVars, sessVars>>

CheckWrite ==
    \E s \in SchemaNames :
        LET chk == check_schema_write_access(permissions, s) IN
        /\ trace' = <<CheckEvent("write", s, chk = "ok")>>
        /\ op' = Op("check_schema_write_access", s, NoneDf, "none", db,
                    Outcome(db, chk, <<>>))
        /\ UNCHANGED <<permissions, db>>
        /\ UNCHANGED <<authVars, concVars, sessVars>>

GetTablesForSchema ==
    \E s \in SchemaNames :
        LET o == get_tables_for_schema(permissions, db, s) IN
        /\ db' = o.db
        /\ trace' = o.trace
        /\ op' = Op("get_tables_for_schema", s, NoneDf, "none", db, o)
        /\ UNCHANGED <<permissions, authVars, concVars, sessVars>>

LoadTableData ==
    \E id \in TableIdInputs, fail \in LoadFailures :
        LET o == load_table_data(permissions, db, id, fail) IN
        /\ db' = o.db
        /\ trace' = o.trace
        /\ op' = Op("load_table_data", id, NoneDf, fail, db, o)
        /\ UNCHANGED <<permissions, authVars, concVars, sessVars>>

GetTableInfo ==
    \E id \in TableIdInputs, fail \in {"none", "count"} :
        LET o == get_table_info(permissions, db, id, fail) IN
        /\ db' = o.db
        /\ trace' = o.trace
        /\ op' = Op("get_table_info", id, NoneDf, fail, db, o)
        /\ UNCHANGED <<permissions, authVars, concVars, sessVars>>

SaveTableChanges ==
    \E id \in TableIdInputs, df \in DataFrames, fail \in ReplaceFailures :
        LET o == save_table_changes(permissions, db, id, df, fail) IN
        /\ db' = o.db
        /\ trace' = o.trace
        /\ op' = Op("save_table_changes", id, df, fail, db, o)
        /\ UNCHANGED <<permissions, authVars, concVars, sessVars>>

\* The script offers the schemas of list_user_schemas and the tables of
\* list_tables; the data editor and read_csv hand over a frame, never None.
LegacyCommit ==
    \E s \in list_user_schemas(permissions) :
        \E id \in list_tables(db, s), r \in SUBSET Rows, fail \in ReplaceFailures :
            LET o == legacy_commit(permissions, db, id, Frame(r), fail) IN
            /\ db' = o.db
            /\ trace' = o.trace
            /\ op' = Op("legacy_commit", id, Frame(r), fail, db, o)
            /\ UNCHANGED <<permissions, authVars, concVars, sessVars>>

LegacyImport ==
    \E s \in list_user_schemas(permissions) :
        \E id \in list_tables(db, s), r \in SUBSET Rows, fail \in ReplaceFailures :
            LET o == legacy_import(permissions, db, id, Frame(r), fail) IN
            /\ db' = o.db
            /\ trace' = o.trace
            /\ op' = Op("legacy_import", id, Frame(r), fail, db, o)
            /\ UNCHANGED <<permissions, authVars, concVars, sessVars>>

\* A snapshot is a dict over some of the schemas (auth/repositories.py
\* get_permissions: one entry per schema the user's groups have a grant on).
Snapshots == UNION {[d -> GrantLevels] : d \in SUBSET SchemaNames}

InitTables ==
    {[k \in DbKeys |-> IF k = <<SchemaS, TableT>> THEN Table(r) ELSE NoTable]
        : r \in SUBSET Rows}

\* The accounts: both registered with OldPassword and active.
InitUsers ==
    [u \in UserIds |->
        [email |-> IF u = 1 THEN EmailA ELSE EmailB,
         password_hash |-> hash_password(OldPassword, 0), is_active |-> TRUE]]

NoPassword == Password(0, FALSE, FALSE, FALSE, FALSE)
AuthOp(name, email, token, password, fail, result, before, at) ==
    [name |-> name, email |-> email, token |-> token, password |-> password,
     fail |-> fail, result |-> result, before |-> before, at |-> at]
NoResult == TokenResult(FALSE, "none", 0)

Procs == {1, 2}
NoTxn == [user |-> 0, matched |-> {}, marks |-> {}, expires_at |-> 0, issued |-> 0]

AuthIdle ==
    /\ users = InitUsers
    /\ password_resets = <<>>
    /\ now = 0
    /\ authOp = AuthOp("init", <<>>, 0, NoPassword, "none", NoResult,
                       AuthDb(InitUsers, <<>>), 0)
    /\ pc = [p \in Procs |-> "idle"]
    /\ txn = [p \in Procs |-> NoTxn]

BrowserIdle ==
    /\ permissions = [s \in {} |-> "read"]
    /\ db = [k \in DbKeys |-> NoTable]
    /\ trace = <<>>
    /\ op = [name |-> "init", target |-> <<>>, df |-> NoneDf, fail |-> "none",
             before |-> db, result |-> "none"]

Init ==
    /\ AuthIdle
    /\ SessIdle
    /\ permissions \in Snapshots
    /\ db \in InitTables
    /\ trace = <<>>
    /\ op = [name |-> "init", target |-> <<>>, df |-> NoneDf, fail |-> "none",
             before |-> db, result |-> "none"]

Next ==
    \/ CheckRead
    \/ CheckWrite
    \/ GetTablesForSchema
    \/ LoadTableData
    \/ GetTableInfo
    \/ SaveTableChanges
    \/ LegacyCommit
    \/ LegacyImport

Spec == Init /\ [][Next]_vars

\* ------------------------------------------------------------------ claims
IsReplaceOp == op.name \in {"save_table_changes", "legacy_commit", "legacy_import"}
IsSql(e) == e.ev = "sql"
DropIssued == \E i \in 1..Len(trace) : IsSql(trace[i]) /\ trace[i].what = "drop"

\* The level a statement needs: write for the statements of a replace, read for
\* the queries.
RequiredLevel(e) == IF e.what \in {"drop", "create", "insert"} THEN "write" ELSE "read"

\* C1: no count/select query and no drop/create/insert runs against a schema
\* unless the permission check for the required level passed earlier in the same
\* operation, and nothing runs after a denial.
C1_NoAccessWithoutCheck ==
    /\ \A i \in 1..Len(trace) :
          IsSql(trace[i]) =>
              \E j \in 1..(i - 1) :
                  /\ trace[j].ev = "check"
                  /\ trace[j].ok
                  /\ trace[j].schema = trace[i].schema
                  /\ trace[j].what = RequiredLevel(trace[i])
    /\ \A i \in 1..Len(trace) :
          (trace[i].ev = "check" /\ ~trace[i].ok) => i = Len(trace)

\* C2: the read check passes iff the user's level for the schema is read or
\* write, the write check passes iff it is write, and a schema with no entry in
\* the snapshot fails both checks with PermissionDeniedError.
C2_CheckMatchesLevel ==
    /\ \A i \in 1..Len(trace) :
          trace[i].ev = "check" =>
              LET level == IF trace[i].schema \in DOMAIN permissions
                           THEN permissions[trace[i].schema] ELSE "no entry"
              IN trace[i].ok = IF trace[i].what = "read"
                               THEN level \in {"read", "write"}
                               ELSE level = "write"
    /\ op.name \in {"check_schema_read_access", "check_schema_write_access"} =>
          /\ op.result = IF trace[1].ok THEN "ok" ELSE "PermissionDeniedError"
          /\ op.target \notin DOMAIN permissions => op.result = "PermissionDeniedError"

C2_Witness ==
    /\ op.name = "check_schema_write_access"
    /\ op.target = SchemaH
    /\ SchemaH \notin DOMAIN permissions
    /\ op.result = "PermissionDeniedError"
    /\ SchemaS \in DOMAIN permissions
    /\ permissions[SchemaS] = "read"

\* C3: a table replace requested with an empty or null row-set is a no-op that
\* reports failure: the table is not dropped and its rows are unchanged
\* afterwards, whoever called the replace.
C3_EmptyReplaceIsNoOp ==
    (IsReplaceOp /\ (op.df.is_none \/ df_empty(op.df))) =>
        /\ db = op.before
        /\ op.result # "True"

\* C4: replace_table is atomic: when the create or the insert fails after the
\* DROP was issued, the tables are as they were before; the table is in its
\* new state only if every step succeeded.
C4_ReplaceAtomic ==
    (IsReplaceOp /\ DropIssued) =>
        /\ (op.fail # "none" \/ op.df.is_none) => db = op.before
        /\ db # op.before =>
              /\ op.fail = "none"
              /\ TableOf(db, op.target) = Table(op.df.rows)
        /\ \A k \in DbKeys : k # <<validate_table_id(op.target).schema_name,
                                    validate_table_id(op.target).table_name>>
                                => db[k] = op.before[k]

C4_Witness ==
    /\ IsReplaceOp
    /\ DropIssued
    /\ op.fail = "insert"
    /\ TableOf(op.before, op.target) = Table(Rows)
    /\ op.df.rows = {1}
    /\ db = op.before

\* ------------------------------------------------- the auth steps, in turn
\* The state an operation starts from and the state it leaves.
AuthState == AuthDb(users, password_resets)
AuthApply(o) ==
    /\ users' = o.st.users
    /\ password_resets' = o.st.resets

RequestPasswordReset ==
    \E email \in EmailInputs, fail \in RequestFailures :
        LET o == request_password_reset(AuthState, now, email, fail) IN
        /\ Len(password_resets) < MaxTokens
        /\ AuthApply(o)
        /\ authOp' = AuthOp("request_password_reset", email, 0, NoPassword, fail,
                            o.result, AuthState, now)
        /\ UNCHANGED <<now, browserVars, concVars, sessVars>>

LegacyRequestReset ==
    \E email \in EmailInputs, fail \in RequestFailures :
        LET o == create_password_reset_token(AuthState, now, email, fail) IN
        /\ Len(password_resets) < MaxTokens
        /\ AuthApply(o)
        /\ authOp' = AuthOp("create_password_reset_token", email, 0, NoPassword, fail,
                            o.result, AuthState, now)
        /\ UNCHANGED <<now, browserVars, concVars, sessVars>>

ResetPassword ==
    \E token \in TokenStrings, pw \in NewPasswords, fail \in ResetFailures :
        LET o == reset_password(AuthState, now, token, pw, fail) IN
        /\ AuthApply(o)
        /\ authOp' = AuthOp("reset_password", <<>>, token, pw, fail, o.result, AuthState, now)
        /\ UNCHANGED <<now, browserVars, concVars, sessVars>>

LegacyResetPassword ==
    \E token \in TokenStrings, pw \in NewPasswords, fail \in ResetFailures :
        LET o == complete_password_reset(AuthState, now, token, pw, fail) IN
        /\ AuthApply(o)
        /\ authOp' = AuthOp("complete_password_reset", <<>>, token, pw, fail,
                            o.result, AuthState, now)
        /\ UNCHANGED <<now, browserVars, concVars, sessVars>>

\* AuthUI.password_reset_form: verify_token in its own transaction.
VerifyToken ==
    \E token \in TokenStrings, lookup_error \in BOOLEAN :
        LET row == verify_token(users, password_resets, now, token, lookup_error) IN
        /\ authOp' = AuthOp("verify_token", <<>>, token, NoPassword,
                            IF lookup_error THEN "verify" ELSE "none",
                            TokenResult(row # 0, "verify", row), AuthState, now)
        /\ UNCHANGED <<users, password_resets, now, browserVars, concVars, sessVars>>

\* An hour passes.
Tick ==
    /\ now < MaxTime
    /\ now' = now + 1
    /\ authOp' = AuthOp("tick", <<>>, 0, NoPassword, "none", NoResult, AuthState, now)
    /\ UNCHANGED <<users, password_resets, browserVars, concVars, sessVars>>

\* The administrator flips is_active of the account under watch (outside the
\* application); the other account stays active.
Deactivatable == {1}
AdminSetActive ==
    \E u \in Deactivatable :
        /\ users' = [users EXCEPT ![u].is_active = ~users[u].is_active]
        /\ authOp' = AuthOp("admin", users[u].email, 0, NoPassword, "none", NoResult,
                            AuthState, now)
        /\ UNCHANGED <<password_resets, now, browserVars, concVars, sessVars>>

AuthInit == AuthIdle /\ BrowserIdle /\ SessIdle

AuthNext ==
    \/ RequestPasswordReset
    \/ LegacyRequestReset
    \/ ResetPassword
    \/ LegacyResetPassword
    \/ VerifyToken
    \/ Tick
    \/ AdminSetActive

SpecAuth == AuthInit /\ [][AuthNext]_vars

\* ------------------------------ two request_password_reset calls at once
\* Each call runs in its own transaction under PostgreSQL's default READ
\* COMMITTED: a statement sees the rows committed before it started, an UPDATE
\* waits for the row locks of another open transaction and then looks at the
\* row's latest version, and a transaction's own changes reach password_resets
\* at its COMMIT.
InTransaction(p) == pc[p] \in {"update", "locking", "insert", "commit"}
HoldsLocks(p) == pc[p] \in {"insert", "commit"}

\* EmailValidator.normalize, engine.begin(), UserRepository.find_by_email.
Begin(p) ==
    \E email \in EmailInputs :
        LET user == find_by_email(users, normalize(email)) IN
        /\ pc[p] = "idle"
        /\ IF user = 0 \/ ~users[user].is_active
           THEN /\ pc' = [pc EXCEPT ![p] = "done"]
                /\ txn' = [txn EXCEPT ![p] = NoTxn]
           ELSE /\ pc' = [pc EXCEPT ![p] = "update"]
                /\ txn' = [txn EXCEPT ![p] = [NoTxn EXCEPT !.user = user]]
        /\ UNCHANGED <<authVars, browserVars, sessVars>>

\* The UPDATE of create_reset_token starts: its snapshot holds the committed
\* unused rows of the user.
UpdateStart(p) ==
    /\ pc[p] = "update"
    /\ txn' = [txn EXCEPT ![p].matched =
                  {i \in 1..Len(password_resets) :
                      /\ password_resets[i].user_id = txn[p].user
                      /\ ~password_resets[i].used}]
    /\ pc' = [pc EXCEPT ![p] = "locking"]
    /\ UNCHANGED <<authVars, browserVars, sessVars>>

\* The UPDATE finishes once no other open transaction holds a lock on a matched
\* row; it changes the rows that are still unused.
UpdateFinish(p) ==
    /\ pc[p] = "locking"
    /\ \A q \in Procs \ {p} : HoldsLocks(q) => txn[q].marks \cap txn[p].matched = {}
    /\ txn' = [txn EXCEPT ![p].marks = {i \in txn[p].matched : ~password_resets[i].used}]
    /\ pc' = [pc EXCEPT ![p] = "insert"]
    /\ UNCHANGED <<authVars, browserVars, sessVars>>

\* The INSERT of create_reset_token: the new row is the transaction's own until
\* it commits.
Insert(p) ==
    /\ pc[p] = "insert"
    /\ Len(password_resets) + Cardinality({q \in Procs : pc[q] = "commit"}) < MaxConcTokens
    /\ txn' = [txn EXCEPT ![p].expires_at = now + TOKEN_EXPIRY_HOURS]
    /\ pc' = [pc EXCEPT ![p] = "commit"]
    /\ UNCHANGED <<authVars, browserVars, sessVars>>

\* The with block is left by the return: COMMIT.
Commit(p) ==
    LET marked == [i \in 1..Len(password_resets) |->
                      IF i \in txn[p].marks
                      THEN [password_resets[i] EXCEPT !.used = TRUE]
                      ELSE password_resets[i]]
        token == Len(password_resets) + 1
    IN /\ pc[p] = "commit"
       /\ password_resets' = Append(marked, [user_id |-> txn[p].user, token |-> token,
                                             expires_at |-> txn[p].expires_at,
                                             used |-> FALSE])
       /\ txn' = [txn EXCEPT ![p].issued = token]
       /\ pc' = [pc EXCEPT ![p] = "done"]
       /\ UNCHANGED <<users, now, authOp, browserVars, sessVars>>

\* A statement fails: DatabaseError leaves the with block, ROLLBACK.
Rollback(p) ==
    /\ pc[p] \in {"update", "locking", "insert"}
    /\ txn' = [txn EXCEPT ![p] = NoTxn]
    /\ pc' = [pc EXCEPT ![p] = "done"]
    /\ UNCHANGED <<authVars, browserVars, sessVars>>

\* The form is submitted again.
Resubmit(p) ==
    /\ pc[p] = "done"
    /\ Len(password_resets) < MaxConcTokens
    /\ pc' = [pc EXCEPT ![p] = "idle"]
    /\ txn' = [txn EXCEPT ![p] = NoTxn]
    /\ UNCHANGED <<authVars, browserVars, sessVars>>

ConcNext ==
    \E p \in Procs :
        \/ Begin(p)
        \/ UpdateStart(p)
        \/ UpdateFinish(p)
        \/ Insert(p)
        \/ Commit(p)
        \/ Rollback(p)
        \/ Resubmit(p)

SpecAuthConc == AuthInit /\ [][ConcNext]_vars

\* ------------------------------------------------------ reset-token claims
IsRequestOp == authOp.name \in {"request_password_reset", "create_password_reset_token"}
IsResetOp == authOp.name \in {"reset_password", "complete_password_reset"}
Unexpired(row, t) == ~(t > row.expires_at)
LiveTokens(u) ==
    {i \in 1..Len(password_resets) :
        /\ password_resets[i].user_id = u
        /\ ~password_resets[i].used
        /\ Unexpired(password_resets[i], now)}

\* C5: with the calls made one after another, every user has at most one
\* unused, unexpired token; a request that issues a token leaves every earlier
\* token of that user used, so verifying an earlier token fails even before it
\* expires.
C5_AtMostOneLiveToken ==
    /\ \A u \in UserIds : Cardinality(LiveTokens(u)) <= 1
    /\ (IsRequestOp /\ authOp.result.kind = "token") =>
          LET issued == RowOf(password_resets, authOp.result.token) IN
          /\ issued = Len(password_resets)
          /\ ~password_resets[issued].used
          /\ \A i \in 1..(issued - 1) :
                password_resets[i].user_id = password_resets[issued].user_id =>
                    /\ password_resets[i].used
                    /\ verify_token(users, password_resets, now,
                                    password_resets[i].token, FALSE) = 0

\* Token B has just been issued to the user of token A, which was unused until
\* then and has not expired.
C5_Witness ==
    /\ authOp.name = "request_password_reset"
    /\ authOp.result.kind = "token"
    /\ authOp.result.token = 2
    /\ Len(authOp.before.resets) = 1
    /\ ~authOp.before.resets[1].used
    /\ password_resets[1].user_id = password_resets[2].user_id
    /\ password_resets[1].used
    /\ Unexpired(password_resets[1], now)
    /\ users[password_resets[1].user_id].is_active

\* C6: AuthService.reset_password with a live token and a password that passes
\* the strength rules succeeds, stores the hash of the new password for the
\* token's owner and marks the token used.
C6_ResetWithLiveTokenSucceeds ==
    LET row == verify_token(authOp.before.users, authOp.before.resets, now,
                            authOp.token, FALSE)
    IN (/\ authOp.name = "reset_password"
        /\ authOp.fail = "none"
        /\ PasswordValidator_validate(authOp.password) = ""
        /\ row # 0) =>
           /\ authOp.result.success
           /\ verify_password(authOp.password,
                              users[password_resets[row].user_id].password_hash)
           /\ password_resets[row].used

\* C7: after a reset_password / complete_password_reset call, whatever its
\* outcome, a password hash has changed iff a token has been marked used, and a
\* call that reports failure leaves users and tokens as they were.
C7_ResetAllOrNothing ==
    IsResetOp =>
        LET hashChanged ==
                \E u \in UserIds :
                    users[u].password_hash # authOp.before.users[u].password_hash
            tokenMarked ==
                \E i \in 1..Len(password_resets) :
                    ~authOp.before.resets[i].used /\ password_resets[i].used
        IN /\ hashChanged <=> tokenMarked
           /\ ~authOp.result.success => AuthState = authOp.before

\* The mark-used UPDATE fails after the password UPDATE ran on a live token, and
\* nothing of the call is left.
C7_Witness ==
    /\ authOp.name = "complete_password_reset"
    /\ authOp.fail = "mark"
    /\ authOp.result.kind = "error"
    /\ verify_reset_token(authOp.before.users, authOp.before.resets, now,
                          authOp.token) # 0
    /\ AuthState = authOp.before

\* A token that is used (consumed or superseded) or past its expiry, in the
\* tables st at hour t.
Terminal(st, t, tok) ==
    LET row == RowOf(st.resets, tok) IN
    row # 0 /\ (st.resets[row].used \/ ~Unexpired(st.resets[row], t))

\* C8: consumed, superseded and expired are terminal. authOp keeps the tables
\* and the hour every step started from: a token that was used or expired
\* before the step is so after it, a verification or reset made with it in that
\* step does not succeed, and such a reset leaves the passwords unchanged.
C8_TerminalTokenStates ==
    \A tok \in TokenStrings :
        Terminal(authOp.before, authOp.at, tok) =>
            /\ Terminal(AuthState, now, tok)
            /\ (authOp.name \in {"verify_token", "reset_password",
                                 "complete_password_reset"}
                /\ authOp.token = tok) =>
                   /\ ~authOp.result.success
                   /\ users = authOp.before.users

\* A second reset with the only token there is, which an earlier reset consumed
\* and which has not expired, fails.
C8_Witness ==
    /\ authOp.name = "complete_password_reset"
    /\ authOp.fail = "none"
    /\ validate_password_strength(authOp.password) = ""
    /\ Len(password_resets) = 1
    /\ authOp.token = 1
    /\ authOp.before.resets[1].used
    /\ Unexpired(password_resets[1], now)
    /\ users[password_resets[1].user_id].is_active
    /\ users[password_resets[1].user_id].password_hash.salt = 1
    /\ ~authOp.result.success
    /\ users = authOp.before.users

\* C9: verify_token returns the token iff a row with that string exists, is not
\* used, now is not after expires_at and its owner is active; a lookup error
\* gives no token.
C9_VerifyTokenIff ==
    authOp.name = "verify_token" =>
        LET row == RowOf(password_resets, authOp.token) IN
        /\ authOp.result.success <=>
              /\ authOp.fail = "none"
              /\ row # 0
              /\ ~password_resets[row].used
              /\ ~(now > password_resets[row].expires_at)
              /\ users[password_resets[row].user_id].is_active
        /\ authOp.result.success => authOp.result.token = row

\* verify_token accepts a token at the very hour it expires.
C9_Witness ==
    /\ authOp.name = "verify_token"
    /\ authOp.result.success
    /\ now = password_resets[authOp.result.token].expires_at

\* C10: once two concurrent request_password_reset calls for the same active
\* user have both committed, at most one of the two tokens they issued is valid.
C10_AtMostOneOfTwoValid ==
    (/\ \A p \in Procs : pc[p] = "done" /\ txn[p].issued # 0
     /\ txn[1].user = txn[2].user) =>
        Cardinality({p \in Procs :
                        verify_token(users, password_resets, now,
                                     txn[p].issued, FALSE) # 0}) <= 1

\* ------------------------------------------------------------ logging in
\* The messages of the login paths.
InvalidCredentials == "Neplatne prihlasovaci udaje"
AccountDeactivated == "Vas ucet byl deaktivovan. Kontaktujte administratora."
LoginError == "Doslo k chybe pri prihlasovani"

\* auth/models.py LoginResult (user 0 and error_message "" for None), with the
\* st.error messages the form shows for it.
LoginResult(success, user, perms, error_message, shown) ==
    [success |-> success, user |-> user, permissions |-> perms,
     error_message |-> error_message, shown |-> shown]

\* The passwords typed at the login form: the stored one and another one.
LoginPasswords == {OldPassword, StrongPassword}
LoginFailures == {"none", "find", "permissions"}

\* UserRepository.get_permissions: the grants of the user with that email; a
\* query error is logged and {} returned.
get_permissions(gr, us, email, failed) ==
    LET user == find_by_email(us, email) IN
    IF failed \/ user = 0 THEN NoGrants ELSE gr[user]

\* AuthService.login, as AuthUI.login_form shows its result.
login(us, gr, email, password, fail) ==
    LET e == normalize(email)
        user == find_by_email(us, e)
    IN IF fail = "find"
       THEN LoginResult(FALSE, 0, NoGrants, LoginError, <<LoginError>>)
       ELSE IF user = 0
       THEN LoginResult(FALSE, 0, NoGrants, InvalidCredentials, <<InvalidCredentials>>)
       ELSE IF ~us[user].is_active
       THEN LoginResult(FALSE, 0, NoGrants, AccountDeactivated, <<AccountDeactivated>>)
       ELSE IF ~verify_password(password, us[user].password_hash)
       THEN LoginResult(FALSE, 0, NoGrants, InvalidCredentials, <<InvalidCredentials>>)
       ELSE LoginResult(TRUE, user, get_permissions(gr, us, e, fail = "permissions"),
                        "", <<>>)

\* streamlit_login.py get_user_permissions: the same join, errors not caught.
get_user_permissions(gr, us, email) ==
    LET user == find_by_email(us, email) IN
    IF user = 0 THEN NoGrants ELSE gr[user]

\* streamlit_login.py check_login inside login_form: the email is looked up as
\* typed; the deactivated account gets its own st.error before the form's.
check_login(us, gr, email, password) ==
    LET user == find_by_email(us, email) IN
    IF user = 0
    THEN LoginResult(FALSE, 0, NoGrants, "", <<InvalidCredentials>>)
    ELSE IF ~us[user].is_active
    THEN LoginResult(FALSE, 0, NoGrants, "", <<AccountDeactivated, InvalidCredentials>>)
    ELSE IF ~verify_password(password, us[user].password_hash)
    THEN LoginResult(FALSE, 0, NoGrants, "", <<InvalidCredentials>>)
    ELSE LoginResult(TRUE, user, get_user_permissions(gr, us, email), "", <<>>)

\* SessionManager.login
SessionManager_login(email) == [logged_in |-> TRUE, user_email |-> email]

\* AuthUI.login_form: AuthService.login, then SessionManager.login on success.
Login ==
    \E email \in EmailInputs, password \in LoginPasswords, fail \in LoginFailures :
        LET r == login(users, grants, email, password, fail) IN
        /\ authOp' = AuthOp("login", email, 0, password, fail, r, AuthState, now)
        /\ IF r.success
           THEN /\ session' = SessionManager_login(users[r.user].email)
                /\ permissions' = r.permissions
           ELSE UNCHANGED <<session, permissions>>
        /\ UNCHANGED <<users, password_resets, now, grants, filterOp, viewVars, db, trace, op, concVars>>

\* streamlit_login.py login_form
LegacyLogin ==
    \E email \in EmailInputs, password \in LoginPasswords :
        LET r == check_login(users, grants, email, password) IN
        /\ authOp' = AuthOp("check_login", email, 0, password, "none", r, AuthState, now)
        /\ IF r.success
           THEN /\ session' = SessionManager_login(email)
                /\ permissions' = r.permissions
           ELSE UNCHANGED <<session, permissions>>
        /\ UNCHANGED <<users, password_resets, now, grants, filterOp, viewVars, db, trace, op, concVars>>

\* SessionManager.logout: st.session_state.clear()
Logout ==
    /\ session.logged_in
    /\ session' = LoggedOut
    /\ permissions' = NoGrants
    /\ authOp' = AuthOp("logout", <<>>, 0, NoPassword, "none", NoResult, AuthState, now)
    /\ UNCHANGED <<users, password_resets, now, grants, filterOp, viewVars, db, trace, op, concVars>>

\* An administrator changes the permission tables (outside the application):
\* the watched account's grant on a schema is set to a level or removed.
GrantChanges == {"none", "read", "write"}
AdminSetGrant ==
    \E u \in Deactivatable, schema \in SchemaNames, level \in GrantChanges :
        LET kept == [x \in DOMAIN grants[u] \ {schema} |-> grants[u][x]]
            set == [x \in DOMAIN grants[u] \cup {schema} |->
                       IF x = schema THEN level ELSE grants[u][x]]
        IN /\ grants' = [grants EXCEPT ![u] = IF level = "none" THEN kept ELSE set]
           /\ grants' # grants
           /\ UNCHANGED <<session, filterOp, viewVars, browserVars, authVars, concVars>>

LoginInit == AuthIdle /\ BrowserIdle /\ SessIdle

LoginNext ==
    \/ Login
    \/ LegacyLogin
    \/ Logout
    \/ AdminSetActive
    \/ AdminSetGrant
    \/ CheckRead
    \/ CheckWrite

SpecLogin == LoginInit /\ [][LoginNext]_vars

\* C11: AuthService.login fails the same way, with the generic invalid
\* credentials message, whether the email is unknown, the account inactive or
\* the password wrong; the result does not tell the three apart.
C11_LoginFailuresAlike ==
    (/\ authOp.name = "login"
     /\ authOp.fail = "none"
     /\ ~authOp.result.success) =>
        /\ authOp.result.error_message = InvalidCredentials
        /\ authOp.result.shown = <<InvalidCredentials>>

MaxAround == 1

KW_DELETE == <<"D", "E", "L", "E", "T", "E">>
KW_UPDATE == <<"U", "P", "D", "A", "T", "E">>
KW_INSERT == <<"I", "N", "S", "E", "R", "T">>
KW_DROP == <<"D", "R", "O", "P">>
KW_ALTER == <<"A", "L", "T", "E", "R">>
KW_EXEC == <<"E", "X", "E", "C">>
KW_EXECUTE == <<"E", "X", "E", "C", "U", "T", "E">>
KW_CREATE == <<"C", "R", "E", "A", "T", "E">>

\* ---- config/constants.py
FORBIDDEN_SQL_KEYWORDS ==
    {KW_DELETE, KW_UPDATE, KW_INSERT, KW_DROP, KW_ALTER, KW_EXEC, KW_EXECUTE, KW_CREATE}
SQL_COMMENT_PATTERNS == {<<";">>, <<"-", "-">>, <<"/", "*">>}
\* ---- streamlit_data_browser.py validate_where_clause: its own list
LegacyForbidden ==
    {KW_DELETE, KW_UPDATE, KW_INSERT, KW_DROP, KW_ALTER, KW_EXEC, KW_EXECUTE}

\* The cores: nothing, every keyword, keywords in other letter cases and the
\* three separators. The text around them: a column, a blank, the tail that
\* makes 'dropped'.
FilterCores ==
    FORBIDDEN_SQL_KEYWORDS \cup SQL_COMMENT_PATTERNS \cup
    {<<>>, <<"d", "r", "o", "p">>, <<"C", "r", "e", "a", "t", "e">>}
FilterAround == {<<"x">>, <<" ">>, <<"p", "e", "d">>}
FilterColumns == {<<>>, <<"x">>}

RECURSIVE Flatten(_)
Flatten(ps) == IF ps = <<>> THEN <<>> ELSE Head(ps) \o Flatten(Tail(ps))
AroundTexts == {Flatten(ps) : ps \in UNION {[1..n -> FilterAround] : n \in 0..MaxAround}}
FilterInputs ==
    {before \o core \o after :
        before \in AroundTexts, core \in FilterCores, after \in AroundTexts}

\* ---- Python's str and re
UpperCase == <<"A", "B", "C", "D", "E", "F", "G", "H", "I", "J", "K", "L", "M", "N", "O", "P", "Q", "R", "S", "T", "U", "V", "W", "X", "Y", "Z">>
LowerCase == <<"a", "b", "c", "d", "e", "f", "g", "h", "i", "j", "k", "l", "m", "n", "o", "p", "q", "r", "s", "t", "u", "v", "w", "x", "y", "z">>
ToLower(c) ==
    IF \E i \in 1..Len(UpperCase) : UpperCase[i] = c
    THEN LowerCase[CHOOSE i \in 1..Len(UpperCase) : UpperCase[i] = c]
    ELSE c
LowerSeq(str) == [i \in 1..Len(str) |-> ToLower(str[i])]
\* \w: letters, digits and the underscore
IsWordChar(c) ==
    \/ \E i \in 1..Len(UpperCase) : c \in {UpperCase[i], LowerCase[i]}
    \/ c \in {"0", "1", "2", "3", "4", "5", "6", "7", "8", "9", "_"}
\* pattern in str
Contains(str, pattern) ==
    \E i \in 1..(Len(str) - Len(pattern) + 1) :
        SubSeq(str, i, i + Len(pattern) - 1) = pattern
\* re.search(r"\b(w1|w2|...)\b", str, re.IGNORECASE) for words of word characters
SearchWord(str, words) ==
    \E w \in words : \E i \in 1..(Len(str) - Len(w) + 1) :
        /\ LowerSeq(SubSeq(str, i, i + Len(w) - 1)) = LowerSeq(w)
        /\ i = 1 \/ ~IsWordChar(str[i - 1])
        /\ i + Len(w) - 1 = Len(str) \/ ~IsWordChar(str[i + Len(w)])
\* str.strip() of blanks
Strip(str) == RStrip(LStrip(str))
\* Python's None where a str is expected, and `not str`: true of None and ''.
None == <<"None">>
Falsy(str) == str \in {<<>>, None}

FilterVerdict(is_valid, result) == [is_valid |-> is_valid, result |-> result]

\* ---- browser/validation/validator.py
\* validate_where_clause: (True, None) for the empty filter, else the stripped
\* clause unless a separator, a forbidden word or no column is found.
validate_where_clause(where_clause, columns) ==
    LET clause == Strip(where_clause) IN
    IF Falsy(where_clause) THEN FilterVerdict(TRUE, None)
    ELSE IF \E pattern \in SQL_COMMENT_PATTERNS : Contains(clause, pattern)
    THEN FilterVerdict(FALSE, <<>>)
    ELSE IF SearchWord(clause, FORBIDDEN_SQL_KEYWORDS)
    THEN FilterVerdict(FALSE, <<>>)
    ELSE IF columns # <<>> /\ ~SearchWord(clause, {columns})
    THEN FilterVerdict(FALSE, <<>>)
    ELSE FilterVerdict(TRUE, clause)

\* ---- streamlit_data_browser.py
\* validate_where_clause: ValueError (invalid) or the stripped clause.
legacy_validate_where_clause(where_clause, df_columns) ==
    IF where_clause = <<>> THEN FilterVerdict(TRUE, <<>>)
    ELSE IF Contains(where_clause, <<";">>)
    THEN FilterVerdict(FALSE, <<>>)
    ELSE IF SearchWord(where_clause, LegacyForbidden)
    THEN FilterVerdict(FALSE, <<>>)
    ELSE IF Contains(where_clause, <<"-", "-">>) \/ Contains(where_clause, <<"/", "*">>)
    THEN FilterVerdict(FALSE, <<>>)
    ELSE IF df_columns # <<>> /\ ~SearchWord(where_clause, {df_columns})
    THEN FilterVerdict(FALSE, <<>>)
    ELSE FilterVerdict(TRUE, Strip(where_clause))

FilterOp(name, where_clause, columns, v) ==
    [name |-> name, where_clause |-> where_clause, columns |-> columns,
     is_valid |-> v.is_valid, result |-> v.result]

\* The filter typed into the filter box, before it is validated.
FilterInput(where_clause, columns) ==
    FilterOp("input", where_clause, columns, FilterVerdict(TRUE, <<>>))

ValidateWhereClause ==
    /\ filterOp.name = "input"
    /\ filterOp' = FilterOp("validate_where_clause", filterOp.where_clause,
                            filterOp.columns,
                            validate_where_clause(filterOp.where_clause,
                                                  filterOp.columns))
    /\ UNCHANGED <<grants, session, viewVars, browserVars, authVars, concVars>>

LegacyValidateWhereClause ==
    /\ filterOp.name = "input"
    /\ filterOp' = FilterOp("legacy_validate_where_clause", filterOp.where_clause,
                            filterOp.columns,
                            legacy_validate_where_clause(filterOp.where_clause,
                                                         filterOp.columns))
    /\ UNCHANGED <<grants, session, viewVars, browserVars, authVars, concVars>>

FilterInit ==
    /\ AuthIdle
    /\ BrowserIdle
    /\ SessionIdle
    /\ ViewIdle
    /\ \E where_clause \in FilterInputs, columns \in FilterColumns :
          filterOp = FilterInput(where_clause, columns)

FilterNext ==
    \/ ValidateWhereClause
    \/ LegacyValidateWhereClause

SpecFilter == FilterInit /\ [][FilterNext]_vars

\* C13: a filter holding ';', '--', '/*' or one of DELETE, UPDATE, INSERT, DROP,
\* ALTER, EXEC, EXECUTE, CREATE as a whole word in any letter case is invalid,
\* whatever surrounds it; 'dropped', which only contains a keyword, is valid.
C13_DenyListRejects ==
    LET wc == filterOp.where_clause
        denied ==
            \/ Contains(wc, <<";">>)
            \/ Contains(wc, <<"-", "-">>)
            \/ Contains(wc, <<"/", "*">>)
            \/ SearchWord(wc, {KW_DELETE, KW_UPDATE, KW_INSERT, KW_DROP, KW_ALTER,
                               KW_EXEC, KW_EXECUTE, KW_CREATE})
    IN filterOp.name \in {"validate_where_clause", "legacy_validate_where_clause"} =>
          /\ denied => ~filterOp.is_valid
          /\ (wc = <<"d", "r", "o", "p", "p", "e", "d">> /\ filterOp.columns = <<>>) => filterOp.is_valid

\* ================================================================ page loads
\* config/constants.py has PAGE_SIZE = 50; the model scales the page to its
\* tables of at most MaxRows rows.
PAGE_SIZE == 1
\* The pages and page sizes a caller of the service passes.
MaxPage == 2
MaxPageSize == 2

\* ---- the database
\* The model's tables have one boolean column x, true in row 1 only. The
\* database evaluates the fragment x and raises an error for any other text.
ConditionX == <<"x">>
SqlAccepts(where_clause) == Falsy(where_clause) \/ Strip(where_clause) = ConditionX
RowsWhere(rows, where_clause) == IF Falsy(where_clause) THEN rows ELSE rows \cap {1}
\* ORDER BY 1 LIMIT limit OFFSET offset
PageOf(rows, limit, offset) ==
    {r \in rows : LET position == Cardinality({q \in rows : q <= r})
                  IN position > offset /\ position <= offset + limit}

\* A query whose text was composed, with the fragment put after WHERE (<<>>
\* when the text has no WHERE).
QueryEvent(kind, key, where_clause) ==
    [what |-> kind, table |-> key,
     where |-> IF Falsy(where_clause) THEN <<>> ELSE where_clause]

\* ---- browser/repositories.py
\* get_row_count: COUNT(*) with the fragment appended; any error gives 0.
get_row_count(dbv, schema_name, table_name, where_clause) ==
    LET key == <<schema_name, table_name>>
        failed == ~dbv[key].exists \/ ~SqlAccepts(where_clause)
    IN [value |-> IF failed THEN 0
                  ELSE Cardinality(RowsWhere(dbv[key].rows, where_clause)),
        sql |-> <<QueryEvent("count", key, where_clause)>>]

\* fetch_data: SELECT * with the fragment appended, ordered and paged; any
\* error (PostgreSQL refuses a negative LIMIT or OFFSET) becomes DatabaseError.
fetch_data(dbv, schema_name, table_name, limit, offset, where_clause) ==
    LET key == <<schema_name, table_name>>
        raised == \/ ~dbv[key].exists
                  \/ ~SqlAccepts(where_clause)
                  \/ limit < 0
                  \/ offset < 0
    IN [raised |-> raised,
        rows |-> IF raised THEN {}
                 ELSE PageOf(RowsWhere(dbv[key].rows, where_clause), limit, offset),
        sql |-> <<QueryEvent("select", key, where_clause)>>]

\* ---- browser/validation/where_clause_validator.py
\* re.search(r';\s*\w+', str)
SearchStatement(str) ==
    \E i \in 1..Len(str) : \E j \in (i + 1)..Len(str) :
        /\ str[i] = ";"
        /\ IsWordChar(str[j])
        /\ \A k \in (i + 1)..(j - 1) : str[k] = " "
\* re.search(r'/\*.*?\*/', str)
SearchBlockComment(str) ==
    \E i \in 1..Len(str) : \E j \in (i + 2)..(Len(str) - 1) :
        /\ SubSeq(str, i, i + 1) = <<"/", "*">>
        /\ SubSeq(str, j, j + 1) = <<"*", "/">>
\* re.search(prefix + r'\w+', str, re.IGNORECASE)
SearchPrefixed(str, prefix) ==
    \E i \in 1..(Len(str) - Len(prefix)) :
        /\ LowerSeq(SubSeq(str, i, i + Len(prefix) - 1)) = prefix
        /\ IsWordChar(str[i + Len(prefix)])
\* str.count(c)
Count(str, c) == Cardinality({i \in 1..Len(str) : str[i] = c})

DANGEROUS_PATTERNS(str) ==
    \/ SearchStatement(str)
    \/ Contains(str, <<"-", "-">>)
    \/ SearchBlockComment(str)
    \/ SearchPrefixed(str, <<"x", "p", "_">>)
    \/ SearchPrefixed(str, <<"s", "p", "_">>)
    \/ SearchWord(str, {<<"e", "x", "e", "c">>,
                        <<"e", "x", "e", "c", "u", "t", "e">>,
                        <<"e", "v", "a", "l">>})

\* WhereClauseValidator.validate: (valid, cleaned clause).
WhereClauseValidator_validate(where_clause) ==
    LET clause == Strip(where_clause) IN
    IF Falsy(where_clause) THEN FilterVerdict(TRUE, None)
    ELSE IF DANGEROUS_PATTERNS(clause) THEN FilterVerdict(FALSE, <<>>)
    ELSE IF Count(clause, "(") # Count(clause, ")") THEN FilterVerdict(FALSE, <<>>)
    ELSE IF Count(clause, "'") % 2 # 0 THEN FilterVerdict(FALSE, <<>>)
    ELSE FilterVerdict(TRUE, clause)

\* ---- browser/service.py
\* FilterState of browser/models.py; error_message is "None" when not set, else
\* the validator whose message it carries.
FilterState(where_clause, is_active, is_valid, error_message) ==
    [where_clause |-> where_clause, is_active |-> is_active, is_valid |-> is_valid,
     error_message |-> error_message]

\* BrowserService.validate_filter: the basic validation, then the advanced one.
validate_filter(where_clause, columns) ==
    LET basic == validate_where_clause(where_clause, columns)
        advanced == WhereClauseValidator_validate(basic.result)
    IN IF Falsy(where_clause) THEN FilterState(<<>>, FALSE, TRUE, "None")
       ELSE IF ~basic.is_valid
       THEN FilterState(where_clause, FALSE, FALSE, "validate_where_clause")
       ELSE IF ~advanced.is_valid
       THEN FilterState(where_clause, FALSE, FALSE, "WhereClauseValidator.validate")
       ELSE FilterState(advanced.result, TRUE, TRUE, "None")

\* A faulty ceiling, to try the properties against: the quotient rounded down.
floor_div(r, n) == IF n > 0 THEN r \div n ELSE -((r + (-n) - 1) \div (-n))

\* math.ceil(r / n) for r >= 0 and n # 0
ceil_div(r, n) == IF n > 0 THEN (r + n - 1) \div n ELSE -(r \div (-n))

QueryFailure(result, sql) ==
    QueryOutcome(result, {}, 0, 0, 0, 0, FALSE, FALSE, 0, sql)

\* total_pages = math.ceil(total_rows / page_size) if total_rows > 0 else 1
total_pages_of(total_rows, page_size) ==
    IF total_rows > 0 THEN ceil_div(total_rows, page_size) ELSE 1

\* The QueryResult of a counted and fetched page. Rows counted and a page size
\* of 0 divide by zero before the fetch.
query_result(page, page_size, offset, count, df) ==
    IF count.value > 0 /\ page_size = 0
    THEN QueryFailure("ZeroDivisionError", count.sql)
    ELSE IF df.raised
    THEN QueryFailure("DatabaseError", count.sql \o df.sql)
    ELSE QueryOutcome("QueryResult", df.rows, page, page_size, count.value,
                      total_pages_of(count.value, page_size),
                      page < total_pages_of(count.value, page_size), page > 1,
                      offset, count.sql \o df.sql)

\* offset = (page - 1) * page_size
offset_of(page, page_size) == (page - 1) * page_size

\* BrowserService.load_table_data with its paging and filter arguments:
\* validate the id, check read access, compute the offset, count, fetch, and
\* build the QueryResult.
load_table_data_page(perms, dbv, table_id, page, page_size, where_clause) ==
    LET v == validate_table_id(table_id) IN
    IF ~v.ok THEN QueryFailure("ValidationError", <<>>)
    ELSE IF check_schema_read_access(perms, v.schema_name) # "ok"
    THEN QueryFailure(check_schema_read_access(perms, v.schema_name), <<>>)
    ELSE query_result(page, page_size, offset_of(page, page_size),
                      get_row_count(dbv, v.schema_name, v.table_name, where_clause),
                      fetch_data(dbv, v.schema_name, v.table_name, page_size,
                                 offset_of(page, page_size), where_clause))

\* A faulty listing, to try the properties against: every schema of the
\* database (BrowserRepository.get_schemas), whatever the snapshot grants.
get_all_schemas(perms) == SchemaNames

\* BrowserRepository.get_user_schemas (sorted(permissions.keys())) and
\* get_tables: the select boxes' options.
get_user_schemas(perms) == DOMAIN perms
get_tables(dbv, schema_name) ==
    {TableId(k) : k \in {x \in DbKeys : x[1] = schema_name /\ dbv[x].exists}}
TableOptions(perms, dbv) ==
    UNION {get_tables(dbv, s) : s \in get_user_schemas(perms)}

\* ---- browser/ui.py
_clear_filter(u) ==
    [u EXCEPT !.where_clause = <<>>, !.filter_applied = FALSE,
              !.current_page = 1, !.reload_data = TRUE]

\* A faulty table change, to try the properties against: it notes the new
\* table and keeps the filter and the page.
_handle_table_change_keeping(u, new_table_id) ==
    [u EXCEPT !.current_table_id = new_table_id]

\* _handle_table_change: a table other than the session's clears the filter.
_handle_table_change(u, new_table_id) ==
    IF u.current_table_id # new_table_id
    THEN _clear_filter([u EXCEPT !.current_table_id = new_table_id])
    ELSE u

\* st.session_state.where_clause if st.session_state.filter_applied else None
AppliedFilter(u) == IF u.filter_applied THEN u.where_clause ELSE <<>>

\* _render_table_view down to the widgets: the load (when reload_data) or the
\* cached result. An exception of the load is shown as an error and no widget
\* is drawn.
_render_table_view(u, q) ==
    IF ~u.reload_data
    THEN [ui |-> u, ok |-> TRUE, q |-> u.cached_query_result]
    ELSE IF q.result = "QueryResult"
    THEN [ui |-> [u EXCEPT !.reload_data = FALSE, !.cached_query_result = q],
          ok |-> TRUE, q |-> q]
    ELSE [ui |-> u, ok |-> FALSE, q |-> q]

\* The load of the session's page of the selected table with its filter.
load_page(u, perms, dbv, selected_table_id) ==
    load_table_data_page(perms, dbv, selected_table_id, u.current_page,
                         PAGE_SIZE, AppliedFilter(u))

\* One run of BrowserUI.render: the table change, then the table view.
render(u, perms, dbv, selected_table_id) ==
    _render_table_view(_handle_table_change(u, selected_table_id),
                       load_page(_handle_table_change(u, selected_table_id),
                                 perms, dbv, selected_table_id))

\* The fragment of the outcome's query of one kind, <<>> when it has none.
WhereOf(q, kind) ==
    IF \E i \in 1..Len(q.sql) : q.sql[i].what = kind
    THEN q.sql[CHOOSE i \in 1..Len(q.sql) : q.sql[i].what = kind].where
    ELSE <<>>

\* What a run shows: the result it loaded or kept from the run that loaded it.
UiDisplay(r, selected_table_id) ==
    Display("render", selected_table_id, AppliedFilter(r.ui),
            WhereOf(r.q, "count"), WhereOf(r.q, "select"), FALSE, FALSE, r.q)

\* The filters a user types or a caller passes.
ViewFilters ==
    { <<"x">>, <<" ", "x">>, <<"y">>, <<"x", ";">>, <<"(", "x">>, <<"x", "'">> }

\* A run without a pressed button: a table picked, a cell edited, a text typed.
UiRun ==
    \E id \in TableOptions(permissions, db) :
    \E r \in {render(ui, permissions, db, id)} :
        /\ ui' = r.ui
        /\ display' = UiDisplay(r, id)
        /\ UNCHANGED <<legacy, cache, grants, session, filterOp>>
        /\ UNCHANGED <<browserVars, authVars, concVars>>

\* The session after an accepted filter was stored (_render_filter_panel).
_apply_filter(u, filter_state) ==
    [u EXCEPT !.where_clause = filter_state.where_clause,
              !.filter_applied = TRUE, !.current_page = 1, !.reload_data = TRUE]

\* df.columns.tolist() if not df.empty else []
ColumnsOf(q) == IF q.data # {} THEN ConditionX ELSE <<>>

\* "Filtrovat" with a text in the box (_render_filter_panel): the filter is
\* stored when validate_filter accepts it, and st.rerun() runs the script again.
UiApplyFilter ==
    \E id \in TableOptions(permissions, db), where_clause \in ViewFilters :
    \E r \in {render(ui, permissions, db, id)} :
    \E filter_state \in {validate_filter(where_clause, ColumnsOf(r.q))} :
    \E last \in {IF filter_state.is_valid
                 THEN render(_apply_filter(r.ui, filter_state), permissions, db, id)
                 ELSE r} :
        /\ r.ok
        /\ ui' = last.ui
        /\ display' = UiDisplay(last, id)
        /\ UNCHANGED <<legacy, cache, grants, session, filterOp>>
        /\ UNCHANGED <<browserVars, authVars, concVars>>

\* "Zrusit filtr": _clear_filter, then st.rerun().
UiClearFilter ==
    \E id \in TableOptions(permissions, db) :
    \E r \in {render(ui, permissions, db, id)} :
    \E r2 \in {render(_clear_filter(r.ui), permissions, db, id)} :
        /\ r.ok
        /\ ui' = r2.ui
        /\ display' = UiDisplay(r2, id)
        /\ UNCHANGED <<legacy, cache, grants, session, filterOp>>
        /\ UNCHANGED <<browserVars, authVars, concVars>>

\* _render_pagination: the four buttons, drawn when the rows exceed one page
\* and enabled by has_previous and has_next.
PageButtons == {"first", "previous", "next", "last"}
PageTarget(button, current_page, total_pages) ==
    CASE button = "first" -> 1
      [] button = "previous" -> current_page - 1
      [] button = "next" -> current_page + 1
      [] button = "last" -> total_pages
UiPage ==
    \E id \in TableOptions(permissions, db), button \in PageButtons :
    \E r \in {render(ui, permissions, db, id)} :
    \E target \in {PageTarget(button, r.ui.current_page, r.q.total_pages)} :
    \E r2 \in {render([r.ui EXCEPT !.current_page = target, !.reload_data = TRUE],
                      permissions, db, id)} :
        /\ r.ok
        /\ r.q.total_rows > PAGE_SIZE
        /\ IF button \in {"first", "previous"} THEN r.q.has_previous ELSE r.q.has_next
        /\ ui' = r2.ui
        /\ display' = UiDisplay(r2, id)
        /\ UNCHANGED <<legacy, cache, grants, session, filterOp>>
        /\ UNCHANGED <<browserVars, authVars, concVars>>

\* "COMMIT" (_render_action_buttons): with write permission the edited page is
\* saved; on success the page is reloaded by st.rerun().
UiCommitOf(id, rows, fail) ==
    \E r \in {render(ui, permissions, db, id)} :
    \E o \in {save_table_changes(permissions, db, id, Frame(rows), fail)} :
    \E last \in {IF o.result = "True"
                 THEN render([r.ui EXCEPT !.reload_data = TRUE], permissions, o.db, id)
                 ELSE r} :
        /\ r.ok
        /\ has_write_access(permissions, validate_table_id(id).schema_name)
        /\ db' = o.db
        /\ ui' = last.ui
        /\ display' = UiDisplay(last, id)
        /\ UNCHANGED <<legacy, cache, grants, session, filterOp>>
        /\ UNCHANGED <<permissions, trace, op, authVars, concVars>>

\* COMMIT with any content of the data editor: the page as loaded, or edited.
UiCommit ==
    \E id \in TableOptions(permissions, db), rows \in SUBSET Rows,
       fail \in {"none", "insert"} :
        UiCommitOf(id, rows, fail)

\* A call of BrowserService.load_table_data by any caller of the service, with
\* a well-formed or a malformed id and no filter, a valid or a rejected one.
ServiceTableIds == {TableId(<<SchemaS, TableT>>), <<"s", "t">>}
ServiceFilters == {<<>>, ConditionX, <<"x", ";">>}
ServiceLoadTableData ==
    \E id \in ServiceTableIds, page \in 0..MaxPage, page_size \in -1..MaxPageSize,
       where_clause \in ServiceFilters :
    \E q \in {load_table_data_page(permissions, db, id, page, page_size, where_clause)} :
        /\ display' = Display("load_table_data", id, where_clause,
                              WhereOf(q, "count"), WhereOf(q, "select"),
                              FALSE, FALSE, q)
        /\ UNCHANGED <<ui, legacy, cache, grants, session, filterOp>>
        /\ UNCHANGED <<browserVars, authVars, concVars>>

\* The tables of the page loads: both exist, with any rows.
ViewTables == {[k \in DbKeys |-> Table(r)] : r \in SUBSET Rows}

ViewInit ==
    /\ AuthIdle
    /\ SessIdle
    /\ permissions = [s \in SchemaNames |-> IF s = SchemaS THEN "write" ELSE "read"]
    /\ db \in ViewTables
    /\ trace = <<>>
    /\ op = [name |-> "init", target |-> <<>>, df |-> NoneDf, fail |-> "none",
             before |-> db, result |-> "none"]

ViewNext ==
    \/ UiRun
    \/ UiApplyFilter
    \/ UiClearFilter
    \/ UiPage
    \/ UiCommit
    \/ ServiceLoadTableData

SpecView == ViewInit /\ [][ViewNext]_vars

\* C14: every fragment put after WHERE in a count or select query was accepted
\* by the filter validation: validate_filter finds it valid for the columns of
\* an empty or a filled page.
C14_OnlyValidatedFilters ==
    \A i \in 1..Len(display.q.sql) :
        LET fragment == display.q.sql[i].where IN
        fragment # <<>> =>
            \E columns \in {<<>>, ConditionX} :
                validate_filter(fragment, columns).is_valid

\* C15: an operation on a well-formed table id that the catalog does not
\* contain composes no SQL and leaves the tables as they were: load_table_data,
\* get_table_info and save_table_changes fail before any query.
C15_UnknownTableNoSql ==
    (/\ op.name \in {"load_table_data", "get_table_info", "save_table_changes"}
     /\ validate_table_id(op.target).ok
     /\ ~TableOf(op.before, op.target).exists) =>
        /\ \A i \in 1..Len(trace) : ~IsSql(trace[i])
        /\ db = op.before

\* ============================================================ table id parsing
\* The ids handed to validate_table_id: every text of at most MaxIdLen
\* characters over two letters and the separator.
MaxIdLen == 4
IdChars == {"s", "t", "."}
IdInputs == UNION {[1..n -> IdChars] : n \in 0..MaxIdLen}

IdInput(table_id) ==
    [name |-> "input", target |-> table_id, df |-> NoneDf, fail |-> "none",
     before |-> db, result |-> "none"]

\* TableValidator.validate_table_id applied to the id.
ValidateTableId ==
    /\ op.name = "input"
    /\ op' = [op EXCEPT !.name = "validate_table_id",
                        !.result = validate_table_id(op.target)]
    /\ UNCHANGED <<permissions, db, trace, authVars, concVars, sessVars>>

TableIdInit ==
    /\ AuthIdle
    /\ SessIdle
    /\ permissions = [s \in {} |-> "read"]
    /\ db = [k \in DbKeys |-> NoTable]
    /\ trace = <<>>
    /\ \E table_id \in IdInputs : op = IdInput(table_id)

TableIdNext == ValidateTableId

SpecTableId == TableIdInit /\ [][TableIdNext]_vars

\* C16: validate_table_id refuses every id that has not exactly one '.' or has
\* an empty schema or table part, and for an accepted id returns the text
\* before the first '.' as schema and the text after it as table.
C16_ExactlyOneSeparator ==
    op.name = "validate_table_id" =>
        LET d == FirstDot(op.target) IN
        /\ (\/ Count(op.target, ".") # 1
            \/ d = 1
            \/ d = Len(op.target)) => ~op.result.ok
        /\ op.result.ok =>
              /\ op.result.schema_name = SubSeq(op.target, 1, d - 1)
              /\ op.result.table_name = SubSeq(op.target, d + 1, Len(op.target))

\* C17: a QueryResult built by load_table_data for page size n and r counted
\* rows has total_pages = max(1, ceil(r/n)) (the least k >= 1 with k * n >= r),
\* has_next = (page < total_pages), has_previous = (page > 1), and the page
\* query got the offset (page - 1) * n: a load straight from the service holds
\* the rows of the filtered table from that offset on, at most n of them.
C17_Pagination ==
    display.q.result = "QueryResult" =>
        LET q == display.q
            n == q.page_size
            r == q.total_rows
        IN /\ n >= 0
           /\ q.total_pages >= 1
           /\ n > 0 => /\ q.total_pages * n >= r
                       /\ q.total_pages > 1 => (q.total_pages - 1) * n < r
           /\ n = 0 => r = 0 /\ q.total_pages = 1
           /\ q.has_next = (q.page < q.total_pages)
           /\ q.has_previous = (q.page > 1)
           /\ q.offset = (q.page - 1) * n
           /\ display.by = "load_table_data" =>
                 q.data = PageOf(RowsWhere(TableOf(db, display.table_id).rows,
                                           display.where_clause),
                                 n, (q.page - 1) * n)

\* C17 witness: the second and last page of two rows with one row a page.
C17_Witness ==
    /\ display.by = "load_table_data"
    /\ display.q.result = "QueryResult"
    /\ display.q.total_rows = 2
    /\ display.q.page_size = 1
    /\ display.q.page = 2
    /\ display.q.total_pages = 2
    /\ display.q.has_previous
    /\ ~display.q.has_next
    /\ display.q.offset = 1
    /\ display.q.data = {2}

\* ================================================= the script's page loads
\* ---- streamlit_data_browser.py
\* An st.cache_data entry: the call's arguments, the value returned, and
\* whether the table was replaced after the entry was filled.
CacheEntry(key, value) == [key |-> key, value |-> value, stale |-> FALSE]
CacheHit(entries, key) == \E e \in entries : e.key = key
CacheGet(entries, key) == CHOOSE e \in entries : e.key = key
\* The entry a cached function answers from: the stored one, else a new one.
Cached(entries, key, value) ==
    IF CacheHit(entries, key) THEN CacheGet(entries, key) ELSE CacheEntry(key, value)

\* The fragment the script puts after WHERE for a filter that passed its
\* validate_where_clause (none for the empty or the blank filter).
legacy_fragment(where_clause) == legacy_validate_where_clause(where_clause, <<>>).result

\* get_row_count's body: validate the id and the filter, run COUNT(*); any
\* exception is shown and 0 returned.
legacy_get_row_count(dbv, table_id, where_clause) ==
    IF \/ ~legacy_validate_table_id(dbv, table_id).ok
       \/ ~legacy_validate_where_clause(where_clause, <<>>).is_valid
       \/ ~SqlAccepts(legacy_fragment(where_clause))
    THEN 0
    ELSE Cardinality(RowsWhere(TableOf(dbv, table_id).rows,
                               legacy_fragment(where_clause)))

\* load_table's body: the unfiltered page; an exception gives an empty frame.
legacy_load_table(dbv, table_id, offset) ==
    IF ~legacy_validate_table_id(dbv, table_id).ok
    THEN {}
    ELSE PageOf(TableOf(dbv, table_id).rows, PAGE_SIZE, offset)

\* load_table_filtered's body: the filtered page; an exception, the filter's
\* ValueError included, gives an empty frame.
legacy_load_table_filtered(dbv, table_id, where_clause, offset) ==
    IF \/ ~legacy_validate_table_id(dbv, table_id).ok
       \/ ~legacy_validate_where_clause(where_clause, <<>>).is_valid
       \/ ~SqlAccepts(legacy_fragment(where_clause))
    THEN {}
    ELSE PageOf(RowsWhere(TableOf(dbv, table_id).rows, legacy_fragment(where_clause)),
                PAGE_SIZE, offset)

\* clear_filter_callback
clear_filter_callback(l) ==
    [l EXCEPT !.where_clause = <<>>, !.filter_applied = FALSE,
              !.current_page = 1, !.reload_data = TRUE]

\* main_data_browser's tracking of the selected table: a changed table resets
\* the page, clears the filter and reruns the script.
legacy_table_change(l, selected_table_id) ==
    IF l.current_table_id # <<>> /\ l.current_table_id # selected_table_id
    THEN clear_filter_callback([l EXCEPT !.current_table_id = selected_table_id])
    ELSE [l EXCEPT !.current_table_id = selected_table_id]

\* The call that gives the run its rows: load_table_filtered when the data is
\* to be reloaded and a filter is applied, else load_table.
legacy_data_call(l, c, dbv, selected_table_id, offset) ==
    IF l.reload_data /\ l.filter_applied /\ l.where_clause # <<>>
    THEN [fn |-> "load_table_filtered", where_clause |-> l.where_clause,
          entry |-> Cached(c.load_table_filtered,
                           <<selected_table_id, l.where_clause, offset>>,
                           legacy_load_table_filtered(dbv, selected_table_id,
                                                      l.where_clause, offset))]
    ELSE [fn |-> "load_table", where_clause |-> <<>>,
          entry |-> Cached(c.load_table, <<selected_table_id, offset>>,
                           legacy_load_table(dbv, selected_table_id, offset))]

\* The call that gives the run its row count.
legacy_count_call(l, c, dbv, selected_table_id) ==
    Cached(c.get_row_count, <<selected_table_id, AppliedFilter(l)>>,
           legacy_get_row_count(dbv, selected_table_id, AppliedFilter(l)))

\* What the run leaves: the session, the caches with the entries of its two
\* calls, and the caption and rows it shows.
legacy_page(l, c, selected_table_id, count, data) ==
    [legacy |-> [l EXCEPT !.reload_data = FALSE],
     cache |-> [c EXCEPT !.get_row_count = @ \cup {count},
                         ![data.fn] = @ \cup {data.entry}],
     display |->
        Display("main_data_browser", selected_table_id, AppliedFilter(l),
                AppliedFilter(l), data.where_clause,
                count.stale, data.entry.stale,
                QueryOutcome("QueryResult", data.entry.value, l.current_page,
                             PAGE_SIZE, count.value,
                             total_pages_of(count.value, PAGE_SIZE),
                             l.current_page # total_pages_of(count.value, PAGE_SIZE),
                             l.current_page # 1,
                             offset_of(l.current_page, PAGE_SIZE), <<>>))]

legacy_show(l, c, dbv, selected_table_id) ==
    legacy_page(l, c, selected_table_id,
                legacy_count_call(l, c, dbv, selected_table_id),
                legacy_data_call(l, c, dbv, selected_table_id,
                                 offset_of(l.current_page, PAGE_SIZE)))

\* One run of main_data_browser down to the buttons.
main_data_browser(l, c, dbv, selected_table_id) ==
    legacy_show(legacy_table_change(l, selected_table_id), c, dbv, selected_table_id)

\* The tables offered by the script's select boxes.
LegacyTableOptions(perms, dbv) ==
    UNION {list_tables(dbv, s) : s \in list_user_schemas(perms)}

\* The filters typed into the script's box: one its validation accepts, one it
\* refuses.
LegacyFilters == {ConditionX, <<"x", ";">>}

LegacyApply(r) ==
    /\ legacy' = r.legacy
    /\ cache' = r.cache
    /\ display' = r.display

\* A run without a pressed button.
LegacyRun ==
    \E id \in LegacyTableOptions(permissions, db) :
    \E r \in {main_data_browser(legacy, cache, db, id)} :
        /\ LegacyApply(r)
        /\ UNCHANGED <<ui, grants, session, filterOp>>
        /\ UNCHANGED <<browserVars, authVars, concVars>>

\* "Filtrovat" with a text in the box: the text is stored as typed after the
\* run's loads, and st.rerun() runs the script again.
LegacyApplyFilter ==
    \E id \in LegacyTableOptions(permissions, db), where_clause \in LegacyFilters :
    \E r \in {main_data_browser(legacy, cache, db, id)} :
    \E r2 \in {main_data_browser([r.legacy EXCEPT !.where_clause = where_clause,
                                                  !.filter_applied = TRUE,
                                                  !.reload_data = TRUE,
                                                  !.current_page = 1],
                                 r.cache, db, id)} :
        /\ LegacyApply(r2)
        /\ UNCHANGED <<ui, grants, session, filterOp>>
        /\ UNCHANGED <<browserVars, authVars, concVars>>

\* "Zrusit filtr": the callback runs before the script.
LegacyClearFilter ==
    \E id \in LegacyTableOptions(permissions, db) :
    \E r \in {main_data_browser(clear_filter_callback(legacy), cache, db, id)} :
        /\ LegacyApply(r)
        /\ UNCHANGED <<ui, grants, session, filterOp>>
        /\ UNCHANGED <<browserVars, authVars, concVars>>

\* The four page buttons, drawn when the rows exceed one page.
LegacyPage ==
    \E id \in LegacyTableOptions(permissions, db), button \in PageButtons :
    \E r \in {main_data_browser(legacy, cache, db, id)} :
    \E target \in {PageTarget(button, r.legacy.current_page, r.display.q.total_pages)} :
    \E r2 \in {main_data_browser([r.legacy EXCEPT !.current_page = target,
                                                  !.reload_data = TRUE],
                                 r.cache, db, id)} :
        /\ r.display.q.total_rows > PAGE_SIZE
        /\ IF button \in {"first", "previous"}
           THEN r.display.q.has_previous ELSE r.display.q.has_next
        /\ LegacyApply(r2)
        /\ UNCHANGED <<ui, grants, session, filterOp>>
        /\ UNCHANGED <<browserVars, authVars, concVars>>

\* The entries of the replaced table become entries older than the replace.
MarkStale(c, table_id) ==
    [f \in DOMAIN c |-> {[e EXCEPT !.stale = @ \/ e.key[1] = table_id] : e \in c[f]}]

\* load_table.clear()
load_table_clear(c) == [c EXCEPT !.load_table = {}]

\* "ROLLBACK": load_table.clear(), reload, st.rerun().
LegacyRollback ==
    \E id \in LegacyTableOptions(permissions, db) :
    \E r \in {main_data_browser(legacy, cache, db, id)} :
    \E r2 \in {main_data_browser([r.legacy EXCEPT !.reload_data = TRUE],
                                 load_table_clear(r.cache), db, id)} :
        /\ LegacyApply(r2)
        /\ UNCHANGED <<ui, grants, session, filterOp>>
        /\ UNCHANGED <<browserVars, authVars, concVars>>

\* "COMMIT" with write permission: replace_table with the edited rows,
\* load_table.clear(), reload, st.rerun().
LegacyViewCommit ==
    \E id \in LegacyTableOptions(permissions, db), rows \in SUBSET Rows,
       fail \in {"none", "insert"} :
    \E r \in {main_data_browser(legacy, cache, db, id)} :
    \E w \in {legacy_replace_table(db, id, Frame(rows), fail)} :
    \E r2 \in {main_data_browser([r.legacy EXCEPT !.reload_data = TRUE],
                                 load_table_clear(IF w.raised THEN r.cache
                                                  ELSE MarkStale(r.cache, id)),
                                 w.db, id)} :
        /\ legacy_commit(permissions, db, id, Frame(rows), fail).result = "message"
        /\ db' = w.db
        /\ LegacyApply(r2)
        /\ UNCHANGED <<ui, grants, session, filterOp>>
        /\ UNCHANGED <<permissions, trace, op, authVars, concVars>>

LegacyViewInit ==
    /\ AuthIdle
    /\ SessIdle
    /\ permissions = [s \in {SchemaS} |-> "write"]
    /\ db \in ViewTables
    /\ trace = <<>>
    /\ op = [name |-> "init", target |-> <<>>, df |-> NoneDf, fail |-> "none",
             before |-> db, result |-> "none"]

LegacyViewNext ==
    \/ LegacyRun
    \/ LegacyApplyFilter
    \/ LegacyClearFilter
    \/ LegacyPage
    \/ LegacyRollback
    \/ LegacyViewCommit

SpecLegacyView == LegacyViewInit /\ [][LegacyViewNext]_vars

\* C18: a page of rows shown with a total row count has both computed with the
\* same filter: the count is never the filtered one while the rows are the
\* unfiltered ones.
C18_CountAndRowsSameFilter ==
    display.q.result = "QueryResult" => display.count_where = display.data_where

\* C19: after a successful replace of a table, no row count and no page shown
\* for it comes from a cache entry filled before the replace.
C19_NoStaleCacheAfterReplace ==
    display.by = "main_data_browser" => ~display.count_stale /\ ~display.data_stale

\* C20: a read or write check passes only on grants the permission tables hold
\* at the time of the check: once a grant of the logged-in user was revoked or
\* lowered, no later check passes on the strength of the old grant.
C20_ChecksFollowGrants ==
    [][(CheckRead \/ CheckWrite) =>
          (trace'[1].ok =>
              has_permission(get_permissions(grants, users, session.user_email, FALSE),
                             trace'[1].schema, trace'[1].what))]_vars

\* ------------------------------------------------------- the schema lists
\* ---- browser/service.py
\* BrowserService.get_accessible_schemas(permissions): the picker's options.
service_get_accessible_schemas(perms) == get_user_schemas(perms)

\* ---- browser/permission_service.py
\* BrowserPermissionService.get_accessible_schemas(level): the snapshot's
\* schemas whose level meets the asked one; no schema for any other level.
get_accessible_schemas(perms, level) ==
    {schema_name \in DOMAIN perms :
        IF level = "read"
        THEN perms[schema_name] \in {"read", "write"}
        ELSE IF level = "write"
        THEN perms[schema_name] = "write"
        ELSE FALSE}

\* BrowserUI.render up to the schema picker: the options it is given.
RenderSchemas ==
    /\ trace' = <<>>
    /\ op' = Op("render", <<>>, NoneDf, "none", db,
                Outcome(db, service_get_accessible_schemas(permissions), <<>>))
    /\ UNCHANGED <<permissions, db>>
    /\ UNCHANGED <<authVars, concVars, sessVars>>

GetAccessibleSchemas ==
    \E level \in {"read", "write"} :
        /\ trace' = <<>>
        /\ op' = Op("get_accessible_schemas", level, NoneDf, "none", db,
                    Outcome(db, get_accessible_schemas(permissions, level), <<>>))
        /\ UNCHANGED <<permissions, db>>
        /\ UNCHANGED <<authVars, concVars, sessVars>>

SchemasInit ==
    /\ AuthIdle
    /\ SessIdle
    /\ permissions \in Snapshots
    /\ db \in InitTables
    /\ trace = <<>>
    /\ op = [name |-> "init", target |-> <<>>, df |-> NoneDf, fail |-> "none",
             before |-> db, result |-> "none"]

SchemasNext ==
    \/ RenderSchemas
    \/ GetAccessibleSchemas
    \/ CheckRead
    \/ CheckWrite

SpecSchemas == SchemasInit /\ [][SchemasNext]_vars

C22_QueryErrorsSurface ==
    (/\ op.name = "load_table_data"
     /\ op.fail \in {"count", "select"}
     /\ \E i \in 1..Len(trace) : trace[i].ev = "sql" /\ trace[i].what = op.fail) =>
        op.result = "DatabaseError"

\* ------------------------------------------------ the reset-request forms
\* What a submitted form can meet: a failing statement of the token's
\* transaction, or, with the token made, a send that returns False or raises.
SendFailures == {"send_false", "send_raised"}
FormFailures == RequestFailures \cup SendFailures
DbFailure(fail) == IF fail \in RequestFailures THEN fail ELSE "none"

\* ---- notifications/email_service.py
\* EmailService.send_password_reset_email: True when sent; False when SMTP is
\* not configured or a template fails; EmailError out of _send_message.
send_password_reset_email(fail) ==
    CASE fail = "send_false" -> "False"
      [] fail = "send_raised" -> "EmailError"
      [] OTHER -> "True"

\* utils.email_service.send_password_reset_email, the script's import: a send
\* that tells success from failure by its result, or fails with an error.
legacy_send_password_reset_email(fail) ==
    CASE fail = "send_false" -> "False"
      [] fail = "send_raised" -> "raised"
      [] OTHER -> "True"

\* What the form shows after a send.
Shown(result, sent) ==
    TokenResult(sent = "True",
                IF sent = "True" THEN "sent" ELSE IF sent = "False" THEN "not sent" ELSE sent,
                result.token)

\* ---- auth/ui.py
\* AuthUI.password_reset_request_form with an address of valid format:
\* request_password_reset in its own transaction, then the send.
password_reset_request_form(st, t, email, fail) ==
    LET o == request_password_reset(st, t, email, DbFailure(fail)) IN
    IF o.result.success /\ o.result.token # 0
    THEN AuthOutcome(o.st, Shown(o.result, send_password_reset_email(fail)))
    ELSE o

\* ---- streamlit_login.py
\* password_reset_request_form with an address of valid format: the token's
\* statements and the send run inside one get_engine().begin() block, which
\* commits when it is left normally and rolls back when an error leaves it.
legacy_password_reset_request_form(st, t, email, fail) ==
    LET o == create_password_reset_token(st, t, email, DbFailure(fail))
        sent == legacy_send_password_reset_email(fail)
    IN IF o.result.success /\ o.result.token # 0
       THEN AuthOutcome(engine_begin(st, o.st, sent = "raised", FALSE),
                        Shown(o.result, sent))
       ELSE o

PasswordResetRequestForm ==
    \E email \in EmailInputs, fail \in FormFailures :
    \E o \in {password_reset_request_form(AuthState, now, email, fail)} :
        /\ Len(password_resets) < MaxTokens
        /\ AuthApply(o)
        /\ authOp' = AuthOp("password_reset_request_form", email, 0, NoPassword, fail,
                            o.result, AuthState, now)
        /\ UNCHANGED <<now, browserVars, concVars, sessVars>>

LegacyPasswordResetRequestForm ==
    \E email \in EmailInputs, fail \in FormFailures :
    \E o \in {legacy_password_reset_request_form(AuthState, now, email, fail)} :
        /\ Len(password_resets) < MaxTokens
        /\ AuthApply(o)
        /\ authOp' = AuthOp("legacy_password_reset_request_form", email, 0, NoPassword,
                            fail, o.result, AuthState, now)
        /\ UNCHANGED <<now, browserVars, concVars, sessVars>>

ResetFormNext ==
    \/ PasswordResetRequestForm
    \/ LegacyPasswordResetRequestForm
    \/ VerifyToken
    \/ Tick
    \/ AdminSetActive

SpecResetForm == AuthInit /\ [][ResetFormNext]_vars

\* C23: when a reset-request form made a token and the send of the email then
\* returned False or raised, the token is stored and is accepted by
\* verify_token (verify_reset_token in the script) right after the form.
C23_SendFailureKeepsToken ==
    (/\ authOp.name \in {"password_reset_request_form",
                         "legacy_password_reset_request_form"}
     /\ authOp.fail \in SendFailures
     /\ authOp.result.token # 0) =>
        /\ RowOf(password_resets, authOp.result.token) # 0
        /\ IF authOp.name = "password_reset_request_form"
           THEN verify_token(users, password_resets, now, authOp.result.token, FALSE) # 0
           ELSE verify_reset_token(users, password_resets, now, authOp.result.token) # 0

\* ------------------------------------------------------- validate_filter
\* The filter texts: every text of at most MaxFilterLen characters over a
\* column name, the blank, a parenthesis and a quote.
MaxFilterLen == 4
FilterTextChars == {"x", " ", "(", "'"}
FilterTexts == UNION {[1..n -> FilterTextChars] : n \in 0..MaxFilterLen}

\* ---- browser/validation/where_clause_validator.py
\* re.sub(r'\s+', ' ', str) on a stripped text: each run of blanks becomes one.
RECURSIVE CollapseRuns(_)
CollapseRuns(str) ==
    IF Len(str) < 2 THEN str
    ELSE IF str[1] = " " /\ str[2] = " " THEN CollapseRuns(Tail(str))
    ELSE <<str[1]>> \o CollapseRuns(Tail(str))

\* WhereClauseValidator.sanitize
sanitize(where_clause) ==
    IF Falsy(where_clause) THEN <<>> ELSE CollapseRuns(Strip(where_clause))

\* validate_filter on the typed text.
ValidateFilter ==
    /\ filterOp.name = "input"
    /\ \E fs \in {validate_filter(filterOp.where_clause, filterOp.columns)} :
          filterOp' = FilterOp("validate_filter", filterOp.where_clause,
                               filterOp.columns, FilterVerdict(fs.is_valid, fs))
    /\ UNCHANGED <<grants, session, viewVars, browserVars, authVars, concVars>>

\* validate_filter on the where_clause of the FilterState an accepted text got,
\* with the same columns.
ValidateFilterAgain ==
    /\ filterOp.name = "validate_filter"
    /\ filterOp.is_valid
    /\ \E fs \in {validate_filter(filterOp.result.where_clause, filterOp.columns)} :
          filterOp' = FilterOp("validate_filter_again", filterOp.result.where_clause,
                               filterOp.columns, FilterVerdict(fs.is_valid, fs))
    /\ UNCHANGED <<grants, session, viewVars, browserVars, authVars, concVars>>

ValidateFilterInit ==
    /\ AuthIdle
    /\ BrowserIdle
    /\ SessionIdle
    /\ ViewIdle
    /\ \E where_clause \in FilterTexts, columns \in FilterColumns :
          filterOp = FilterInput(where_clause, columns)

ValidateFilterNext ==
    \/ ValidateFilter
    \/ ValidateFilterAgain

SpecValidateFilter == ValidateFilterInit /\ [][ValidateFilterNext]_vars

\* C24: validating the where_clause that validate_filter returned for an
\* accepted filter, with the same columns, accepts it and returns that same
\* where_clause.
C24_ValidateFilterIdempotent ==
    filterOp.name = "validate_filter_again" =>
        /\ filterOp.result.is_valid
        /\ filterOp.result.where_clause = filterOp.where_clause

\* C25: for an accepted filter the returned where_clause is the text stripped
\* of leading and trailing blanks with each inner run of blanks made one blank.
C25_ReturnsCollapsedClause ==
    (filterOp.name = "validate_filter" /\ filterOp.is_valid) =>
        filterOp.result.where_clause = sanitize(filterOp.where_clause)

\* C30: a FilterState that is active is valid and has a non-empty where_clause;
\* one that is not valid is not active and has an error message; a text of
\* blanks only is never active.
C30_FilterStateConsistent ==
    filterOp.name = "validate_filter" =>
        /\ filterOp.result.is_active =>
              /\ filterOp.result.is_valid
              /\ ~Falsy(filterOp.result.where_clause)
        /\ ~filterOp.result.is_valid =>
              /\ ~filterOp.result.is_active
              /\ filterOp.result.error_message # "None"
        /\ Strip(filterOp.where_clause) = <<>> => ~filterOp.result.is_active

\* C26: COMMIT of the grid as it was loaded, with no cell edited and no failing
\* statement, leaves the table's rows as they were, whatever page and filter
\* the grid shows.
C26_CommitWithoutEditKeepsRows ==
    [][\A id \in TableOptions(permissions, db) :
          UiCommitOf(id, render(ui, permissions, db, id).q.data, "none") =>
              db'[<<validate_table_id(id).schema_name,
                    validate_table_id(id).table_name>>].rows
              = db[<<validate_table_id(id).schema_name,
                     validate_table_id(id).table_name>>].rows]_vars

\* C27: the session's current_page is at least 1, and while the page shows a
\* query result it is at most that result's total_pages.
C27_CurrentPageInRange ==
    /\ ui.current_page >= 1
    /\ (display.by = "render" /\ display.q.result = "QueryResult") =>
          ui.current_page <= display.q.total_pages

\* The filter panel, with its clear button, is drawn by a run on the table:
\* _render_table_view reaches _render_filter_panel only after its load.
ClearFilterOffered(id) == render(ui, permissions, db, id).ok

\* C28: while a filter is applied, a run on the session's table draws the
\* filter panel with the clear button, also when the database refuses the
\* filter; the session is never in a state where it does not.
C28_ClearFilterOffered ==
    (ui.filter_applied /\ ui.current_table_id \in TableOptions(permissions, db)) =>
        ClearFilterOffered(ui.current_table_id)

\* C29: when a run selects a table other than the session's, the session has
\* no filter, page 1 and reload_data set before the table's first load, and
\* every query of that load is on the new table, without a WHERE fragment and
\* for page 1.
C29_TableChangeClearsFilter ==
    \A id \in TableOptions(permissions, db) :
        id # ui.current_table_id =>
            /\ ~_handle_table_change(ui, id).filter_applied
            /\ _handle_table_change(ui, id).where_clause = <<>>
            /\ _handle_table_change(ui, id).current_page = 1
            /\ _handle_table_change(ui, id).reload_data
            /\ _handle_table_change(ui, id).current_table_id = id
            /\ \A i \in 1..Len(render(ui, permissions, db, id).q.sql) :
                  /\ render(ui, permissions, db, id).q.sql[i].where = <<>>
                  /\ TableId(render(ui, permissions, db, id).q.sql[i].table) = id
            /\ render(ui, permissions, db, id).q.result = "QueryResult" =>
                  /\ render(ui, permissions, db, id).q.page = 1
                  /\ render(ui, permissions, db, id).q.offset = 0

\* The session shows s.t under a filter, its load done, and h.t can be picked.
C29_Witness ==
    /\ ui.current_table_id = TableId(<<SchemaS, TableT>>)
    /\ ui.filter_applied
    /\ ui.where_clause = ConditionX
    /\ ~ui.reload_data
    /\ TableId(<<SchemaH, TableT>>) \in TableOptions(permissions, db)


====
